---- MODULE Spec2Model ----
(***************************************************************************)
(* Model of the shared scanning / pattern-matching core of AIDevWorkflow   *)
(* (DirectoryScanner, ignore rules, PatternMatcher, FileReader), of the    *)
(* capture tool that re-implements it, of the summarizer and of the diff   *)
(* tool.                                                                   *)
(*                                                                         *)
(* Strings of the program are sequences of one-character strings, so that  *)
(* split / replace / slice / regular-expression matching are computed      *)
(* character by character as the TypeScript code computes them.            *)
(***************************************************************************)
EXTENDS Integers, Sequences, FiniteSets, TLC

VARIABLES
    call,      \* pending call of a pure function: its name and arguments
    ret,       \* <<v>> once that call returned v, <<>> before
    fs,        \* the filesystem the scanner walks
    opts,      \* ScannerOptions given to the DirectoryScanner constructor
    pc,        \* position of scan(): "idle", "scanning", "unwinding"
    stack,     \* activation records of scanDirectory, innermost last
    err,       \* the exception in flight while unwinding
    outcome,   \* results of the finished scan() calls, oldest first
    listed,    \* readdirSync calls of the current scan, in call order
    reads,     \* FileReader.readFile calls of the current scan, in order
    source,    \* summarizer: the content of each file of the project
    records,   \* summarizer: the summary record file of each source file
    walk,      \* summarizer: position of main() / walkDirectory / processFile
    api,       \* summarizer: the summarization API, calls in flight and made
    git        \* diff tool: the git process, the output file and the CLI

vars == <<call, ret, fs, opts, pc, stack, err, outcome, listed, reads,
          source, records, walk, api, git>>

\* the variables of the scanner and those of the summarizer and the diff tool
scanVars == <<fs, opts, pc, stack, err, outcome, listed, reads>>
toolVars == <<source, records, walk, api, git>>

NoCall == [fn |-> "none"]
NoError == [kind |-> "none"]

----------------------------------------------------------------------------
(* String helpers (JavaScript String methods on character sequences)       *)

SeqToSet(s) == {s[i] : i \in 1..Len(s)}

\* String.prototype.startsWith
StartsWith(s, t) == Len(t) <= Len(s) /\ SubSeq(s, 1, Len(t)) = t

\* s.slice(i) for a 1-based start index i
Drop(s, i) == SubSeq(s, i, Len(s))

\* String.prototype.lastIndexOf for a single character, 1-based, 0 if absent
LastIndexOf(s, c) ==
    LET I == {i \in 1..Len(s) : s[i] = c}
    IN IF I = {} THEN 0 ELSE CHOOSE i \in I : \A j \in I : j <= i

\* all strings over alphabet A of length at most n
RECURSIVE StringsUpTo(_, _)
StringsUpTo(A, n) ==
    IF n = 0 THEN {<<>>}
    ELSE LET Shorter == StringsUpTo(A, n - 1)
         IN Shorter \cup {Append(s, c) : s \in Shorter, c \in A}

IsSep(c) == c \in {"/", "\\"}

\* String.prototype.split on single-character separators: the list of parts
RECURSIVE SplitAt(_, _, _, _)
SplitAt(s, seps, i, cur) ==
    IF i > Len(s) THEN <<cur>>
    ELSE IF s[i] \in seps THEN <<cur>> \o SplitAt(s, seps, i + 1, <<>>)
    ELSE SplitAt(s, seps, i + 1, Append(cur, s[i]))

\* path.split(/[\\/]/)
SplitPath(s) == SplitAt(s, {"/", "\\"}, 1, <<>>)

WhiteSpace == {" ", "\t", "\n", "\r", "\f"}

\* String.prototype.trim
Trim(s) ==
    LET I == {i \in 1..Len(s) : s[i] \notin WhiteSpace}
    IN IF I = {} THEN <<>>
       ELSE SubSeq(s, CHOOSE i \in I : \A j \in I : i <= j,
                      CHOOSE i \in I : \A j \in I : j <= i)

UpperCase == <<"A","B","C","D","E","F","G","H","I","J","K","L","M",
               "N","O","P","Q","R","S","T","U","V","W","X","Y","Z">>
LowerCase == <<"a","b","c","d","e","f","g","h","i","j","k","l","m",
               "n","o","p","q","r","s","t","u","v","w","x","y","z">>

LowerChar(c) ==
    IF \E i \in 1..26 : UpperCase[i] = c
    THEN LowerCase[CHOOSE i \in 1..26 : UpperCase[i] = c] ELSE c

\* String.prototype.toLowerCase
ToLowerCase(s) == [i \in 1..Len(s) |-> LowerChar(s[i])]

----------------------------------------------------------------------------
(* ignorePatterns: default sets and the two predicates                     *)

DEFAULT_IGNORE_PATTERNS == {
    <<"n","o","d","e","_","m","o","d","u","l","e","s">>,
    <<"d","i","s","t">>,
    <<"b","u","i","l","d">>,
    <<"c","o","v","e","r","a","g","e">>,
    <<".","g","i","t">>,
    <<".","c","a","c","h","e">>,
    <<".","n","e","x","t">>,
    <<"_","_","p","y","c","a","c","h","e","_","_">>,
    <<".","D","S","_","S","t","o","r","e">>,
    <<"p","a","c","k","a","g","e","-","l","o","c","k",".","j","s","o","n">> }

DEFAULT_INCLUDE_EXTENSIONS == {
    <<".","t","s">>, <<".","t","s","x">>, <<".","j","s">>,
    <<".","j","s","x">>, <<".","j","s","o","n">>, <<".","m","d">>,
    <<".","t","x","t">> }

createIgnorePatterns(o) ==
    IF ~o.extendDefaults THEN o.additionalIgnorePatterns
    ELSE DEFAULT_IGNORE_PATTERNS \cup o.additionalIgnorePatterns

createIncludeExtensions(o) ==
    IF ~o.extendExtensions THEN o.additionalExtensions
    ELSE DEFAULT_INCLUDE_EXTENSIONS \cup o.additionalExtensions

\* a variant that accepts a part beginning with an ignored name
shouldIgnorePathPrefix(path, ignorePatterns) ==
    \E i \in 1..Len(SplitPath(path)) :
        \E m \in ignorePatterns : StartsWith(SplitPath(path)[i], m)

shouldIgnorePath(path, ignorePatterns) ==
    LET pathParts == SplitPath(path)
    IN \E i \in 1..Len(pathParts) : pathParts[i] \in ignorePatterns

\* a variant without the extension filter
shouldIncludeFileAny(path, includeExtensions) == TRUE

\* path.slice(path.lastIndexOf('.')): lastIndexOf gives -1 when there is no
\* dot, and slice(-1) is then the last character of the path
shouldIncludeFile(path, includeExtensions) ==
    LET dot == LastIndexOf(path, ".")
        ext == IF dot = 0
               THEN (IF Len(path) = 0 THEN <<>> ELSE Drop(path, Len(path)))
               ELSE Drop(path, dot)
    IN ext \in includeExtensions

----------------------------------------------------------------------------
(* JavaScript regular expressions, for the syntax the patterns below use:  *)
(* literal characters, '\c', '.', '[...]', '[^...]', '^', '$' and the      *)
(* quantifiers '*', '+', '?'.                                              *)

LineTerminators == {"\n", "\r"}

\* String.prototype.replace(/from/g, to) for a literal substring "from":
\* matches are found left to right and do not overlap
RECURSIVE ReplaceAll(_, _, _)
ReplaceAll(s, from, to) ==
    IF Len(s) < Len(from) THEN s
    ELSE IF SubSeq(s, 1, Len(from)) = from
         THEN to \o ReplaceAll(Drop(s, Len(from) + 1), from, to)
         ELSE <<s[1]>> \o ReplaceAll(Drop(s, 2), from, to)

\* index of the first "]" after position i, 0 if there is none
ClassEnd(src, i) ==
    LET J == {j \in (i + 1)..Len(src) : src[j] = "]"}
    IN IF J = {} THEN 0 ELSE CHOOSE j \in J : \A k \in J : j <= k

Atom(kind, chars) == [kind |-> kind, chars |-> chars, min |-> 1, many |-> FALSE]

\* new RegExp(src): the parsed pattern, or ok = FALSE for a SyntaxError
RECURSIVE RegexParse(_, _, _)
RegexParse(src, i, items) ==
    IF i > Len(src) THEN [ok |-> TRUE, items |-> items]
    ELSE LET c == src[i] IN
      CASE c = "\\" ->
             IF i = Len(src) THEN [ok |-> FALSE, items |-> items]
             ELSE RegexParse(src, i + 2, Append(items, Atom("set", {src[i + 1]})))
        [] c = "[" ->
             LET j == ClassEnd(src, i) IN
             IF j = 0 THEN [ok |-> FALSE, items |-> items]
             ELSE IF j > i + 1 /\ src[i + 1] = "^"
                  THEN RegexParse(src, j + 1,
                         Append(items, Atom("notset", SeqToSet(SubSeq(src, i + 2, j - 1)))))
                  ELSE RegexParse(src, j + 1,
                         Append(items, Atom("set", SeqToSet(SubSeq(src, i + 1, j - 1)))))
        [] c = "." -> RegexParse(src, i + 1, Append(items, Atom("notset", LineTerminators)))
        [] c = "^" -> RegexParse(src, i + 1, Append(items, Atom("bol", {})))
        [] c = "$" -> RegexParse(src, i + 1, Append(items, Atom("eol", {})))
        [] c \in {"*", "+", "?"} ->
             \* a quantifier needs an unquantified atom before it
             IF items = <<>> THEN [ok |-> FALSE, items |-> items]
             ELSE LET prev == items[Len(items)] IN
                  IF prev.kind \in {"bol", "eol"} \/ prev.many \/ prev.min = 0
                  THEN [ok |-> FALSE, items |-> items]
                  ELSE RegexParse(src, i + 1,
                         [items EXCEPT ![Len(items)] =
                            [prev EXCEPT !.min = IF c = "+" THEN 1 ELSE 0,
                                         !.many = (c # "?")]])
        [] OTHER -> RegexParse(src, i + 1, Append(items, Atom("set", {c})))

AtomMatches(item, ch) ==
    IF item.kind = "set" THEN ch \in item.chars ELSE ch \notin item.chars

\* can items[k..] match a substring of str that begins at position pos
RECURSIVE MatchFrom(_, _, _, _)
MatchFrom(items, k, str, pos) ==
    IF k > Len(items) THEN TRUE
    ELSE LET item == items[k] IN
      CASE item.kind = "bol" -> pos = 1 /\ MatchFrom(items, k + 1, str, pos)
        [] item.kind = "eol" -> pos = Len(str) + 1 /\ MatchFrom(items, k + 1, str, pos)
        [] OTHER ->
             \E n \in item.min..(IF item.many THEN Len(str) + 1 - pos ELSE 1) :
                /\ pos + n - 1 <= Len(str)
                /\ \A q \in pos..(pos + n - 1) : AtomMatches(item, str[q])
                /\ MatchFrom(items, k + 1, str, pos + n)

\* RegExp.prototype.test of a successfully parsed pattern (no 'g' flag)
RegexTest(items, str) == \E start \in 1..(Len(str) + 1) : MatchFrom(items, 1, str, start)

----------------------------------------------------------------------------
(* PatternMatcher                                                          *)

Threw(e) == [threw |-> TRUE, val |-> FALSE, error |-> e]
Returned(v) == [threw |-> FALSE, val |-> v, error |-> NoError]

PatternError(pattern) == [kind |-> "PatternError", pattern |-> pattern]

globToRegex(pattern) ==
    LET dots  == ReplaceAll(pattern, <<".">>, <<"\\", ".">>)
        stars == ReplaceAll(dots, <<"*", "*">>, <<".", "*">>)
        star  == ReplaceAll(stars, <<"*">>, <<"[", "^", "/", "]", "*">>)
    IN ReplaceAll(star, <<"?">>, <<".">>)

matchGlobPattern(path, pattern) ==
    LET regexPattern == globToRegex(pattern)
        regex == RegexParse(<<"^">> \o regexPattern \o <<"$">>, 1, <<>>)
    IN IF regex.ok THEN Returned(RegexTest(regex.items, path))
       ELSE Threw(PatternError(pattern))

matchRegexPattern(path, pattern) ==
    LET regex == RegexParse(pattern, 1, <<>>)
    IN IF regex.ok THEN Returned(RegexTest(regex.items, path))
       ELSE Threw(PatternError(pattern))

matchPattern(path, pattern) ==
    IF pattern.isRegex THEN matchRegexPattern(path, pattern.pattern)
    ELSE matchGlobPattern(path, pattern.pattern)

\* Array.prototype.some: stops at the first pattern that matches or throws
RECURSIVE matchAnyFrom(_, _, _)
matchAnyFrom(path, patterns, i) ==
    IF i > Len(patterns) THEN Returned(FALSE)
    ELSE LET m == matchPattern(path, patterns[i]) IN
         IF m.threw \/ m.val THEN m ELSE matchAnyFrom(path, patterns, i + 1)

matchAnyPattern(path, patterns) == matchAnyFrom(path, patterns, 1)

createPattern(pattern, isRegex) ==
    [pattern |-> IF StartsWith(pattern, <<".", "/">>) THEN Drop(pattern, 3) ELSE pattern,
     isRegex |-> isRegex]

CATCH_ALL == <<"*", "*", "/", "*">>
S_regex == <<"r", "e", "g", "e", "x">>
S_simple == <<"s", "i", "m", "p", "l", "e">>

parseLine(line) ==
    LET parts == SplitAt(line, {","}, 1, <<>>)
        pattern == Trim(parts[1])
        typeStr == IF Len(parts) >= 2 THEN Trim(parts[2]) ELSE S_simple
    IN createPattern(pattern, ToLowerCase(typeStr) = S_regex)

parsePatternInput(content) ==
    IF Trim(content) = <<>> THEN <<createPattern(CATCH_ALL, FALSE)>>
    ELSE LET raw == SplitAt(content, {"\n"}, 1, <<>>)
             lines == [i \in 1..Len(raw) |-> Trim(raw[i])]
             IsPattern(line) == line # <<>> /\ ~StartsWith(line, <<"#">>)
             kept == SelectSeq(lines, IsPattern)
         IN [i \in 1..Len(kept) |-> parseLine(kept[i])]

----------------------------------------------------------------------------
(* PathUtils and the node 'path' module, for normalised absolute paths     *)

\* replace(/[\\/]+/g, '/'): every run of separators becomes one '/'
RECURSIVE CollapseSeparators(_)
CollapseSeparators(s) ==
    IF s = <<>> THEN <<>>
    ELSE IF IsSep(s[1])
         THEN IF Len(s) >= 2 /\ IsSep(s[2]) THEN CollapseSeparators(Tail(s))
              ELSE <<"/">> \o CollapseSeparators(Tail(s))
         ELSE <<s[1]>> \o CollapseSeparators(Tail(s))

\* replace(/\/$/, ''): one '/' at the end of the string is removed
StripTrailingSlash(s) ==
    IF s # <<>> /\ s[Len(s)] = "/" THEN SubSeq(s, 1, Len(s) - 1) ELSE s

normalizeStripFirst(filepath) == CollapseSeparators(StripTrailingSlash(filepath))

normalize(filepath) == StripTrailingSlash(CollapseSeparators(filepath))

\* path.relative(rootDir, filepath) when filepath is rootDir or lies below it
PathRelative(rootDir, filepath) ==
    IF filepath = rootDir THEN <<>> ELSE Drop(filepath, Len(rootDir) + 2)

getRelativePath(filepath, rootDir) == normalize(PathRelative(rootDir, filepath))

\* path.basename
BaseName(filepath) == Drop(filepath, LastIndexOf(filepath, "/") + 1)

\* path.dirname of an absolute path below the filesystem root
DirName(filepath) == SubSeq(filepath, 1, LastIndexOf(filepath, "/") - 1)

----------------------------------------------------------------------------
(* FileReader                                                              *)

MAX_SIZE == 10485760

DEFAULT_OPTIONS == [encoding |-> "utf8", calculateTokens |-> "true", maxSize |-> MAX_SIZE]

\* { ...DEFAULT_OPTIONS, ...options }: a key present in options wins, also
\* when its value is undefined
MergeOptions(defaults, options) ==
    [k \in DOMAIN defaults \cup DOMAIN options |->
        IF k \in DOMAIN options THEN options[k] ELSE defaults[k]]

calculateTokensFloor(length) == length \div 4

\* Math.ceil(content.length / 4)
calculateTokens(length) == (length + 3) \div 4

\* the message of an error: its fixed text and the numbers written into it
Message(text, numbers) == [text |-> text, numbers |-> numbers]

FileSystemError(message, originalError) ==
    [kind |-> "FileSystemError", message |-> message, cause |-> originalError.kind]

FileReadError(filepath, message) ==
    [kind |-> "FileReadError", path |-> filepath, message |-> message]

\* an error thrown by a function of the node 'fs' module
SystemError(syscall) == [kind |-> "SystemError", syscall |-> syscall]

\* the file as the reader finds it: "missing" when it is not in the
\* filesystem (any more)
FileStatus(filepath) ==
    IF filepath \in fs.files THEN fs.status[filepath] ELSE "missing"

\* PathUtils.validatePath: existsSync, a fault of which is re-thrown as a
\* FileSystemError
validatePath(filepath) ==
    IF FileStatus(filepath) = "existsfault"
    THEN Threw(FileSystemError(Message("Invalid path", <<>>), SystemError("existsSync")))
    ELSE Returned(FileStatus(filepath) # "missing")

ExceedsGreaterOrEqual(size, maxSize) == size >= maxSize

\* stats.size > maxSize
Exceeds(size, maxSize) == size > maxSize

checkFileSize(filepath, maxSize) ==
    IF FileStatus(filepath) = "statfail"
    THEN Threw(FileReadError(filepath, Message("Error checking file size", <<>>)))
    ELSE IF Exceeds(fs.size[filepath], maxSize)
    THEN Threw(FileReadError(filepath,
                 Message("File size exceeds maximum size", <<fs.size[filepath], maxSize>>)))
    ELSE Returned(TRUE)

\* a FileReadResult
Result(content, tokenCount, error) ==
    [content |-> content, tokenCount |-> tokenCount, error |-> error]

\* a call that ends by returning v or by throwing e, after the calls ops of
\* functions of the node 'fs' module
Outcome(r, ops) == [threw |-> r.threw, val |-> r.val, error |-> r.error, ops |-> ops]

\* the try block of readFile; the content of a file is its length
readFileTry(filepath, o) ==
    LET valid == validatePath(filepath)
        sized == checkFileSize(filepath, o.maxSize)
    IN IF valid.threw THEN Outcome(valid, <<"existsSync">>)
       ELSE IF ~valid.val
       THEN Outcome(Threw(FileReadError(filepath, Message("File does not exist", <<>>))),
                    <<"existsSync">>)
       ELSE IF sized.threw THEN Outcome(sized, <<"existsSync", "statSync">>)
       ELSE IF FileStatus(filepath) = "unreadable"
       THEN Outcome(Threw(SystemError("readFileSync")),
                    <<"existsSync", "statSync", "readFileSync">>)
       ELSE Outcome(Returned(Result(fs.size[filepath],
                                    IF o.calculateTokens = "true"
                                    THEN <<calculateTokens(fs.size[filepath])>> ELSE <<>>,
                                    NoError)),
                    <<"existsSync", "statSync", "readFileSync">>)

readFileCallRethrows(filepath, options) ==
    LET t == readFileTry(filepath, MergeOptions(DEFAULT_OPTIONS, options))
    IN IF ~t.threw THEN t
       ELSE IF t.error.kind = "FileReadError"
       THEN Outcome(Returned(Result(0, <<>>, t.error)), t.ops)
       ELSE t

\* readFile with its catch block: a call of readFile as its caller sees it
readFileCall(filepath, options) ==
    LET t == readFileTry(filepath, MergeOptions(DEFAULT_OPTIONS, options))
    IN IF ~t.threw THEN t
       ELSE IF t.error.kind = "FileReadError"
       THEN Outcome(Returned(Result(0, <<>>, t.error)), t.ops)
       ELSE Outcome(Returned(Result(0, <<>>,
                       FileReadError(filepath, Message("Error reading file", <<>>)))),
                    t.ops)

\* the FileReadResult of readFile(filepath, options)
readFile(filepath, options) == readFileCall(filepath, options).val

\* an exception of readFile would pass through readFileSync
readFileSync(filepath, options) ==
    LET c == readFileCall(filepath, options)
    IN IF c.threw THEN Threw(c.error)
       ELSE IF c.val.error.kind # "none" THEN Threw(c.val.error)
       ELSE Returned(c.val.content)

----------------------------------------------------------------------------
(* String.prototype.localeCompare under the root collation: punctuation    *)
(* before letters, letters compared without case first, and lower case     *)
(* before upper case only when nothing else differs                        *)

CollationOrder == <<"_", "-", ".", "/">> \o LowerCase

PrimaryRank(c) ==
    LET l == LowerChar(c)
    IN CHOOSE i \in 1..Len(CollationOrder) : CollationOrder[i] = l

CaseRank(c) == IF LowerChar(c) = c THEN 0 ELSE 1

\* lexicographic comparison of a and b by Rank: -1, 0 or 1
RECURSIVE CompareBy(_, _, _)
CompareBy(a, b, level) ==
    IF a = <<>> THEN (IF b = <<>> THEN 0 ELSE -1)
    ELSE IF b = <<>> THEN 1
    ELSE LET ra == IF level = 1 THEN PrimaryRank(a[1]) ELSE CaseRank(a[1])
             rb == IF level = 1 THEN PrimaryRank(b[1]) ELSE CaseRank(b[1])
         IN IF ra < rb THEN -1 ELSE IF ra > rb THEN 1
            ELSE CompareBy(Tail(a), Tail(b), level)

localeCompare(a, b) ==
    IF CompareBy(a, b, 1) # 0 THEN CompareBy(a, b, 1) ELSE CompareBy(a, b, 2)

\* insert node x into the sorted list after the elements that are not greater
RECURSIVE InsertByName(_, _)
InsertByName(sorted, x) ==
    IF sorted = <<>> THEN <<x>>
    ELSE IF localeCompare(sorted[1].name, x.name) <= 0
         THEN <<sorted[1]>> \o InsertByName(Tail(sorted), x)
         ELSE <<x>> \o sorted

RECURSIVE SortFrom(_, _)
SortFrom(children, sorted) ==
    IF children = <<>> THEN sorted
    ELSE SortFrom(Tail(children), InsertByName(sorted, children[1]))

\* the children in the order in which the entries were enumerated
unsortedChildren(children) == children

\* children.sort((a, b) => a.name.localeCompare(b.name)): a stable sort
sortChildren(children) == SortFrom(children, <<>>)

----------------------------------------------------------------------------
(* Specification SpecIgnore: shouldIgnorePath on bounded inputs            *)

MaxPathLen == 4
PathAlphabet == {"a", "b", "/", "\\"}
IgnoreSets == { {<<"a">>}, {<<"a","b">>}, {<<"b">>, <<"a","a">>}, {<<>>}, {} }

\* the summarizer and the diff tool are not running
toolsIdle ==
    /\ source = <<>> /\ records = <<>> /\ walk = <<>> /\ api = <<>> /\ git = <<>>

scannerIdle ==
    /\ fs = <<>> /\ opts = <<>> /\ pc = "idle" /\ stack = <<>>
    /\ err = NoError /\ outcome = <<>> /\ listed = <<>> /\ reads = <<>>
    /\ toolsIdle

InitIgnore ==
    /\ call \in [fn : {"shouldIgnorePath"},
                 path : StringsUpTo(PathAlphabet, MaxPathLen),
                 set : IgnoreSets]
    /\ ret = <<>>
    /\ scannerIdle

CallShouldIgnorePath ==
    /\ call.fn = "shouldIgnorePath" /\ ret = <<>>
    /\ ret' = <<shouldIgnorePath(call.path, call.set)>>
    /\ UNCHANGED <<toolVars, call, fs, opts, pc, stack, err, outcome, listed, reads>>

NextIgnore == CallShouldIgnorePath

SpecIgnore == InitIgnore /\ [][NextIgnore]_vars

\* p[i..j] is a maximal run of non-separator characters of p (j = i-1: empty)
IsSegment(p, i, j) ==
    /\ (i = 1 \/ IsSep(p[i - 1]))
    /\ (j = Len(p) \/ IsSep(p[j + 1]))
    /\ \A k \in i..j : ~IsSep(p[k])

\* C5: shouldIgnorePath(p, S) is true iff some '/'-or-'\'-delimited segment
\* of p is exactly a member of S; a segment that only has a member of S as
\* a prefix or substring does not make it true.
C5_ExactSegment ==
    (call.fn = "shouldIgnorePath" /\ ret # <<>>) =>
        LET p == call.path
        IN ret[1] = (\E i \in 1..(Len(p) + 1) : \E j \in (i - 1)..Len(p) :
                     IsSegment(p, i, j) /\ SubSeq(p, i, j) \in call.set)

\* a path with a segment that has an ignored name as a proper prefix, and no
\* segment equal to it, has been tested and was not ignored
C5_Witness ==
    /\ call.fn = "shouldIgnorePath"
    /\ call.path = <<"b", "/", "a", "b">> /\ call.set = {<<"a">>}
    /\ ret = <<FALSE>>

----------------------------------------------------------------------------
(* Specification SpecPath: PathUtils.normalize on bounded inputs, applied  *)
(* once and then to its own result                                         *)

InitPath ==
    /\ call \in [fn : {"normalize"}, path : StringsUpTo(PathAlphabet, MaxPathLen)]
    /\ ret = <<>>
    /\ scannerIdle

CallNormalize ==
    /\ call.fn = "normalize" /\ ret = <<>>
    /\ ret' = <<normalize(call.path)>>
    /\ UNCHANGED <<toolVars, call, fs, opts, pc, stack, err, outcome, listed, reads>>

CallNormalizeAgain ==
    /\ call.fn = "normalize" /\ Len(ret) = 1
    /\ ret' = Append(ret, normalize(ret[1]))
    /\ UNCHANGED <<toolVars, call, fs, opts, pc, stack, err, outcome, listed, reads>>

NextPath == CallNormalize \/ CallNormalizeAgain

SpecPath == InitPath /\ [][NextPath]_vars

\* C22: normalize is idempotent, normalize(normalize(p)) = normalize(p), and
\* its result has no backslash, no two separators in a row and no separator
\* at its end.
C22_NormalizeIdempotent ==
    call.fn = "normalize" =>
        /\ Len(ret) = 2 => ret[2] = ret[1]
        /\ \A r \in 1..Len(ret) :
              /\ \A i \in 1..Len(ret[r]) : ret[r][i] # "\\"
              /\ \A i \in 1..(Len(ret[r]) - 1) : ~(ret[r][i] = "/" /\ ret[r][i + 1] = "/")
              /\ ret[r] # <<>> => ret[r][Len(ret[r])] # "/"

C22_Witness ==
    /\ call.fn = "normalize" /\ call.path = <<"a", "\\", "/", "b">>
    /\ ret = <<<<"a", "/", "b">>, <<"a", "/", "b">>>>

----------------------------------------------------------------------------
(* Specification SpecPattern: matchGlobPattern and parsePatternInput on    *)
(* bounded inputs                                                          *)

MaxDepth == 3

N_src == <<"s", "r", "c">>
N_deep == <<"d", "e", "e", "p">>
N_nested == <<"n", "e", "s", "t", "e", "d">>
N_test == <<"t", "e", "s", "t">>
N_x_ts == <<"x", ".", "t", "s">>
N_a_ts == <<"a", ".", "t", "s">>
N_y_md == <<"y", ".", "m", "d">>

\* path.join(dir, name) for a non-empty name; the empty dir is '.'
JoinPath(dir, name) == IF dir = <<>> THEN name ELSE dir \o <<"/">> \o name

\* relative directory paths of at most n segments with names from D
RECURSIVE DirChains(_, _)
DirChains(D, n) ==
    IF n = 0 THEN {<<>>}
    ELSE LET Shorter == DirChains(D, n - 1)
         IN Shorter \cup {JoinPath(d, name) : d \in Shorter, name \in D}

PatternDirNames == {N_src, N_deep, N_nested, N_test}
PatternFileNames == {N_x_ts, N_a_ts, N_y_md}

RelPaths == {JoinPath(d, f) : d \in DirChains(PatternDirNames, MaxDepth),
                              f \in PatternFileNames}

G_src_deep_ts == N_src \o <<"/", "*", "*", "/", "*", ".", "t", "s">>

Globs == { G_src_deep_ts, CATCH_ALL, <<"*", ".", "t", "s">>,
           N_src \o <<"/", "*">>, <<"?", ".", "t", "s">>, <<"*", "*">>,
           N_src \o <<"/">> \o N_x_ts, <<"[", "*">> }

Contents == { <<>>, <<" ">>, <<"\n">>, <<" ", "\n", "\t">>, <<"\n", "\n">>,
              <<"#", "c">>, <<"#", "c", "\n", " ">>,
              <<"*", ".", "t", "s">>,
              <<".", "/">> \o N_src \o <<"/", "*", ",", "s", "i", "m", "p", "l", "e">>,
              <<"^">> \o N_src \o <<",", " ", "R", "e", "g", "e", "x", "\n", "*", "*">> }

\* globs and paths without wildcards, over characters that are ordinary in a
\* glob and special in a regular expression
MaxGlobLen == 2
LiteralAlphabet == {"a", "b", ".", "+", "$", "["}
LiteralStrings == StringsUpTo(LiteralAlphabet, MaxGlobLen)

\* pattern texts of a pattern list: glob and regex characters, the field
\* separator, the comment mark and the './' prefix
MaxPatternLen == 3
PatternAlphabet == {"a", ",", "#", ".", "/"}
PatternTexts == StringsUpTo(PatternAlphabet, MaxPatternLen)
A_1_2 == <<"a", "{", "1", ",", "2", "}">>
FilePatterns == [pattern : (PatternTexts \cup {A_1_2}) \ {<<>>}, isRegex : BOOLEAN]
PatternLists == {<<p>> : p \in FilePatterns}
                    \cup {<<p, createPattern(<<"b">>, FALSE)>> : p \in FilePatterns}

\* lines of a pattern file: a pattern text alone or followed by a type
PatternLines == PatternTexts \cup {t \o <<",">> \o S_regex : t \in PatternTexts}

\* pattern lists for matchAnyPattern: patterns that match 'a', that match
\* 'b', that match both, and a regex that is not one
MaxPatterns == 3
R_invalid == [pattern |-> <<"[">>, isRegex |-> TRUE]
PatternPool == { [pattern |-> <<"a">>, isRegex |-> FALSE],
                 [pattern |-> <<"^", "b", "$">>, isRegex |-> TRUE],
                 [pattern |-> <<"*">>, isRegex |-> FALSE],
                 R_invalid }
PoolLists == UNION {[1..n -> PatternPool] : n \in 1..MaxPatterns}

InitPattern ==
    /\ call \in [fn : {"matchGlobPattern"}, path : RelPaths, pattern : Globs]
           \cup [fn : {"matchAnyPattern"}, path : {<<"a">>, <<"b">>, <<"c", "/", "d">>},
                 patterns : PoolLists]
           \cup [fn : {"matchGlobPattern"}, path : LiteralStrings, pattern : LiteralStrings]
           \cup [fn : {"parsePatternInput"}, path : RelPaths, content : Contents]
           \cup [fn : {"parsePatternInput"}, path : {N_a_ts}, content : PatternLines]
           \cup [fn : {"createPattern"}, pattern : PatternTexts, isRegex : BOOLEAN]
           \cup [fn : {"writePatterns"}, path : {N_a_ts}, patterns : PatternLists]
    /\ ret = <<>>
    /\ scannerIdle

CallMatchGlobPattern ==
    /\ call.fn = "matchGlobPattern" /\ ret = <<>>
    /\ ret' = <<matchGlobPattern(call.path, call.pattern)>>
    /\ UNCHANGED <<toolVars, call, fs, opts, pc, stack, err, outcome, listed, reads>>

CallParsePatternInput ==
    /\ call.fn = "parsePatternInput" /\ ret = <<>>
    /\ ret' = <<parsePatternInput(call.content)>>
    /\ UNCHANGED <<toolVars, call, fs, opts, pc, stack, err, outcome, listed, reads>>

\* matchPattern(path, p) for every pattern p the parse returned
CallMatchPattern ==
    /\ call.fn = "parsePatternInput" /\ Len(ret) = 1
    /\ ret' = Append(ret, [i \in 1..Len(ret[1]) |-> matchPattern(call.path, ret[1][i])])
    /\ UNCHANGED <<toolVars, call, fs, opts, pc, stack, err, outcome, listed, reads>>

CallCreatePattern ==
    /\ call.fn = "createPattern" /\ ret = <<>>
    /\ ret' = <<createPattern(call.pattern, call.isRegex)>>
    /\ UNCHANGED <<toolVars, call, fs, opts, pc, stack, err, outcome, listed, reads>>

\* the pattern file of a list: one line 'pattern,simple' or 'pattern,regex'
\* for each pattern, in order
PatternLine(p) == p.pattern \o <<",">> \o (IF p.isRegex THEN S_regex ELSE S_simple)

RECURSIVE JoinLines(_)
JoinLines(lines) ==
    IF Len(lines) = 0 THEN <<>>
    ELSE IF Len(lines) = 1 THEN lines[1]
    ELSE lines[1] \o <<"\n">> \o JoinLines(Tail(lines))

Serialize(patterns) == JoinLines([i \in 1..Len(patterns) |-> PatternLine(patterns[i])])

\* the list is written as a pattern file, which parsePatternInput then reads
WritePatterns ==
    /\ call.fn = "writePatterns"
    /\ call' = [fn |-> "parsePatternInput", path |-> call.path,
                content |-> Serialize(call.patterns), written |-> call.patterns]
    /\ UNCHANGED <<toolVars, ret, fs, opts, pc, stack, err, outcome, listed, reads>>

someDoneAtEnd(evaluated, patterns) ==
    \/ Len(evaluated) = Len(patterns)
    \/ evaluated # <<>> /\ evaluated[Len(evaluated)].threw

\* Array.prototype.some is over: the callback threw or returned true, or no
\* element is left
someDone(evaluated, patterns) ==
    \/ Len(evaluated) = Len(patterns)
    \/ evaluated # <<>> /\ evaluated[Len(evaluated)].threw
    \/ evaluated # <<>> /\ evaluated[Len(evaluated)].val

\* matchAnyPattern, one call of the callback of 'some': ret holds the outcome
\* of matchPattern for each pattern evaluated so far, the last one being the
\* outcome of matchAnyPattern once 'some' is over
EvaluateNextPattern ==
    /\ call.fn = "matchAnyPattern" /\ ~someDone(ret, call.patterns)
    /\ ret' = Append(ret, matchPattern(call.path, call.patterns[Len(ret) + 1]))
    /\ UNCHANGED <<toolVars, call, fs, opts, pc, stack, err, outcome, listed, reads>>

NextPattern ==
    \/ EvaluateNextPattern
    \/ CallMatchGlobPattern
    \/ CallParsePatternInput
    \/ CallMatchPattern
    \/ CallCreatePattern
    \/ WritePatterns

SpecPattern == InitPattern /\ [][NextPattern]_vars

EndsWith(s, t) == Len(t) <= Len(s) /\ SubSeq(s, Len(s) - Len(t) + 1, Len(s)) = t

\* number of path segments of a relative path
Depth(path) == Len(SplitPath(path))

\* C8: '**' matches any sequence of characters including path separators:
\* 'src/**/*.ts' matches every .ts file two or more directories below src
\* (such as 'src/deep/nested/x.ts') and does not match 'test/x.ts'.
C8_DoubleStarCrossesSeparators ==
    (call.fn = "matchGlobPattern" /\ call.pattern = G_src_deep_ts /\ ret # <<>>) =>
        /\ ~ret[1].threw
        /\ ( /\ StartsWith(call.path, N_src \o <<"/">>)
             /\ EndsWith(call.path, <<".", "t", "s">>)
             /\ Depth(call.path) >= 4 ) => ret[1].val
        /\ call.path = JoinPath(N_test, N_x_ts) => ~ret[1].val

IsBlank(content) == \A i \in 1..Len(content) : content[i] \in WhiteSpace

\* C9: parsePatternInput of blank content returns exactly one FilePattern,
\* and matchPattern accepts every relative file path for it, at the root
\* level, one level down and deeper.
C9_BlankIsCatchAll ==
    (call.fn = "parsePatternInput" /\ IsBlank(call.content) /\ Len(ret) = 2) =>
        /\ Len(ret[1]) = 1
        /\ ~ret[2][1].threw /\ ret[2][1].val

HasWildcard(glob) == \E i \in 1..Len(glob) : glob[i] \in {"*", "?"}

\* C11: for a glob without '*' and '?', matchGlobPattern(p, g) returns true
\* exactly when p equals g as a string, also when g holds characters such as
\* '+', '[' or '$'.
C11_LiteralGlobIsEquality ==
    (call.fn = "matchGlobPattern" /\ ~HasWildcard(call.pattern) /\ ret # <<>>) =>
        /\ ~ret[1].threw
        /\ ret[1].val <=> (call.path = call.pattern)

\* a pattern with one leading './' taken off
StripDotSlash(pattern) ==
    IF StartsWith(pattern, <<".", "/">>) THEN Drop(pattern, 3) ELSE pattern

\* C12: parsePatternInput of the written form of a pattern list returns a
\* list of the same length whose i-th element has the isRegex of the i-th
\* original and its pattern, up to one stripped leading './'.
C12_RoundTrip ==
    (call.fn = "parsePatternInput" /\ "written" \in DOMAIN call /\ ret # <<>>) =>
        /\ Len(ret[1]) = Len(call.written)
        /\ \A i \in 1..Len(call.written) :
              /\ ret[1][i].isRegex = call.written[i].isRegex
              /\ ret[1][i].pattern = StripDotSlash(call.written[i].pattern)

\* C13: every FilePattern that createPattern or parsePatternInput produces
\* has a non-empty pattern string.
C13_PatternNeverEmpty ==
    /\ (call.fn = "createPattern" /\ ret # <<>>) => ret[1].pattern # <<>>
    /\ (call.fn = "parsePatternInput" /\ ret # <<>>) =>
           \A i \in 1..Len(ret[1]) : ret[1][i].pattern # <<>>

\* the first pattern of the list that matches path or is invalid; 0 if none
FirstDecisive(path, patterns) ==
    LET D == {i \in 1..Len(patterns) :
                 matchPattern(path, patterns[i]).threw \/ matchPattern(path, patterns[i]).val}
    IN IF D = {} THEN 0 ELSE CHOOSE i \in D : \A j \in D : i <= j

\* C21: matchAnyPattern returns true iff a pattern of the list matches, and
\* stops at the first match in list order: no pattern after the first
\* matching one is evaluated, so an invalid regex after it raises nothing,
\* while an invalid regex before it raises PatternError.
C21_FirstMatchStops ==
    call.fn = "matchAnyPattern" =>
        LET k == FirstDecisive(call.path, call.patterns)
            last == IF k = 0 THEN Len(call.patterns) ELSE k
        IN /\ Len(ret) <= last
           /\ Len(ret) = last =>
                 /\ ret[last] = matchAnyPattern(call.path, call.patterns)
                 /\ k = 0 => ret[last] = Returned(FALSE)
                 /\ (k # 0 /\ call.patterns[k] # R_invalid) => ret[last] = Returned(TRUE)
                 /\ (k # 0 /\ call.patterns[k] = R_invalid) =>
                        ret[last] = Threw(PatternError(R_invalid.pattern))

C21_Witness ==
    /\ call.fn = "matchAnyPattern" /\ Len(call.patterns) = 3
    /\ call.patterns[1] # R_invalid /\ call.patterns[3] = R_invalid
    /\ Len(ret) = 2 /\ ret[2] = Returned(TRUE) /\ ret[1] = Returned(FALSE)
    /\ someDone(ret, call.patterns)

----------------------------------------------------------------------------
(* DirectoryScanner                                                        *)

\* constructor: the effective sets are computed once from the options
ignorePatterns == createIgnorePatterns(opts)
includeExtensions == createIncludeExtensions(opts)

\* a variant in which a matching include pattern admits a file by itself
shouldProcessFileAnyOf(filepath) ==
    LET m == matchAnyPattern(getRelativePath(filepath, opts.rootDir), opts.includePatterns)
    IN IF Len(opts.includePatterns) > 0 /\ (m.threw \/ m.val) THEN m
       ELSE Returned(~shouldIgnorePath(filepath, ignorePatterns)
                     /\ shouldIncludeFile(filepath, includeExtensions))

shouldProcessFile(filepath) ==
    IF shouldIgnorePath(filepath, ignorePatterns) THEN Returned(FALSE)
    ELSE IF ~shouldIncludeFile(filepath, includeExtensions) THEN Returned(FALSE)
    ELSE IF Len(opts.includePatterns) > 0
         THEN matchAnyPattern(getRelativePath(filepath, opts.rootDir), opts.includePatterns)
         ELSE Returned(TRUE)

\* the FileNode for filepath, as <<node>>, or <<>> for null
createFileNode(filepath) ==
    LET r == readFile(filepath, [calculateTokens |-> opts.calculateTokens])
    IN IF r.error.kind # "none" THEN <<>>
       ELSE << [type |-> "file",
                name |-> BaseName(filepath),
                path |-> getRelativePath(filepath, opts.rootDir),
                fullPath |-> filepath,
                content |-> r.content,
                tokenCount |-> r.tokenCount,
                children |-> <<>>] >>

DirectoryError(dirPath, originalError) ==
    [kind |-> "DirectoryError", path |-> dirPath, originalError |-> originalError]

\* fs.readdirSync(dirPath, { withFileTypes: true }): the names in dirPath
Entries(dirPath) ==
    {BaseName(q) : q \in {q \in fs.dirs \cup fs.files \cup fs.links : DirName(q) = dirPath}}

Listable(dirPath) == dirPath \in fs.dirs /\ dirPath \notin fs.unlistable

Frame(dirPath) ==
    [dirPath |-> dirPath, phase |-> "enter", pending |-> {}, children |-> <<>>]

top == stack[Len(stack)]
ReplaceTop(frame) == [stack EXCEPT ![Len(stack)] = frame]
FullPath(name) == top.dirPath \o <<"/">> \o name

\* a variant that skips no entry before looking at its type
PrunedNever(fullPath) == FALSE

\* line 89: the entry is skipped before its type is looked at
Pruned(fullPath) == shouldIgnorePath(fullPath, ignorePatterns)

\* scan(): call scanDirectory(this.rootDir)
StartScan ==
    /\ pc = "idle" /\ call.fn = "scan" /\ Len(outcome) < call.scans
    /\ pc' = "scanning"
    /\ stack' = <<Frame(opts.rootDir)>>
    /\ listed' = <<>> /\ reads' = <<>> /\ err' = NoError
    /\ UNCHANGED <<toolVars, call, ret, fs, opts, outcome>>

\* line 81, readdirSync succeeds
ListDir ==
    /\ pc = "scanning" /\ top.phase = "enter" /\ Listable(top.dirPath)
    /\ listed' = Append(listed, top.dirPath)
    /\ stack' = ReplaceTop([top EXCEPT !.phase = "loop", !.pending = Entries(top.dirPath)])
    /\ UNCHANGED <<toolVars, call, ret, fs, opts, pc, err, outcome, reads>>

\* line 81, readdirSync throws
ListDirFails ==
    /\ pc = "scanning" /\ top.phase = "enter" /\ ~Listable(top.dirPath)
    /\ listed' = Append(listed, top.dirPath)
    /\ pc' = "unwinding"
    /\ err' = [kind |-> "SystemError", path |-> top.dirPath]
    /\ UNCHANGED <<toolVars, call, ret, fs, opts, stack, outcome, reads>>

\* lines 89-91: the next entry is on an ignored path
SkipIgnored ==
    /\ pc = "scanning" /\ top.phase = "loop"
    /\ \E name \in top.pending :
        /\ Pruned(FullPath(name))
        /\ stack' = ReplaceTop([top EXCEPT !.pending = @ \ {name}])
    /\ UNCHANGED <<toolVars, call, ret, fs, opts, pc, err, outcome, listed, reads>>

\* lines 93-95: the next entry is a directory, scanDirectory is called on it
Descend ==
    /\ pc = "scanning" /\ top.phase = "loop"
    /\ \E name \in top.pending :
        /\ ~Pruned(FullPath(name))
        /\ FullPath(name) \in fs.dirs
        /\ stack' = Append(ReplaceTop([top EXCEPT !.pending = @ \ {name}]),
                           Frame(FullPath(name)))
    /\ UNCHANGED <<toolVars, call, ret, fs, opts, pc, err, outcome, listed, reads>>

\* lines 99-105: the next entry is a file that shouldProcessFile accepts and
\* createFileNode reads
ProcessFile ==
    /\ pc = "scanning" /\ top.phase = "loop"
    /\ \E name \in top.pending :
        LET fullPath == FullPath(name) IN
        /\ ~Pruned(fullPath)
        /\ fullPath \in fs.files
        /\ shouldProcessFile(fullPath) = Returned(TRUE)
        /\ createFileNode(fullPath) # <<>>
        /\ reads' = Append(reads, fullPath)
        /\ stack' = ReplaceTop([top EXCEPT !.pending = @ \ {name},
                                           !.children = @ \o createFileNode(fullPath)])
    /\ UNCHANGED <<toolVars, call, ret, fs, opts, pc, err, outcome, listed>>

\* a variant in which a failed read ends the scan
ReadFailureThrows ==
    /\ pc = "scanning" /\ top.phase = "loop"
    /\ \E name \in top.pending :
        LET fullPath == FullPath(name) IN
        /\ ~Pruned(fullPath)
        /\ fullPath \in fs.files
        /\ shouldProcessFile(fullPath) = Returned(TRUE)
        /\ createFileNode(fullPath) = <<>>
        /\ reads' = Append(reads, fullPath)
        /\ pc' = "unwinding"
        /\ err' = readFile(fullPath, [calculateTokens |-> opts.calculateTokens]).error
    /\ UNCHANGED <<toolVars, call, ret, fs, opts, stack, outcome, listed>>

\* lines 99-105 with createFileNode returning null: the read failed, a
\* warning is logged and the loop goes on
ReadFailureSkipped ==
    /\ pc = "scanning" /\ top.phase = "loop"
    /\ \E name \in top.pending :
        LET fullPath == FullPath(name) IN
        /\ ~Pruned(fullPath)
        /\ fullPath \in fs.files
        /\ shouldProcessFile(fullPath) = Returned(TRUE)
        /\ createFileNode(fullPath) = <<>>
        /\ reads' = Append(reads, fullPath)
        /\ stack' = ReplaceTop([top EXCEPT !.pending = @ \ {name}])
    /\ UNCHANGED <<toolVars, call, ret, fs, opts, pc, err, outcome, listed>>

\* line 99 is false: a file that shouldProcessFile rejects, or an entry that
\* is neither a directory nor a file
SkipEntry ==
    /\ pc = "scanning" /\ top.phase = "loop"
    /\ \E name \in top.pending :
        LET fullPath == FullPath(name) IN
        /\ ~Pruned(fullPath)
        /\ \/ fullPath \in fs.links
           \/ fullPath \in fs.files /\ shouldProcessFile(fullPath) = Returned(FALSE)
        /\ stack' = ReplaceTop([top EXCEPT !.pending = @ \ {name}])
    /\ UNCHANGED <<toolVars, call, ret, fs, opts, pc, err, outcome, listed, reads>>

\* line 99: shouldProcessFile throws the PatternError of an include pattern
PatternThrows ==
    /\ pc = "scanning" /\ top.phase = "loop"
    /\ \E name \in top.pending :
        LET fullPath == FullPath(name) IN
        /\ ~Pruned(fullPath)
        /\ fullPath \in fs.files
        /\ shouldProcessFile(fullPath).threw
        /\ pc' = "unwinding"
        /\ err' = shouldProcessFile(fullPath).error
    /\ UNCHANGED <<toolVars, call, ret, fs, opts, stack, outcome, listed, reads>>

DirectoryNode(frame, children) ==
    [type |-> "directory",
     name |-> BaseName(frame.dirPath),
     path |-> getRelativePath(frame.dirPath, opts.rootDir),
     fullPath |-> frame.dirPath,
     content |-> 0,
     tokenCount |-> <<>>,
     children |-> children]

\* lines 96-98: the caller keeps every sub-directory node, also an empty one
KeepSubDirAlways(subDir) == TRUE

\* lines 96-98: the caller keeps a sub-directory node that has children
KeepSubDir(subDir) == Len(subDir.children) > 0

\* lines 108-115, and lines 95-98 of the caller: the loop is over, the node
\* with its sorted children is returned
ReturnDir ==
    /\ pc = "scanning" /\ top.phase = "loop" /\ top.pending = {}
    /\ LET node == DirectoryNode(top, sortChildren(top.children))
           rest == SubSeq(stack, 1, Len(stack) - 1)
       IN IF rest = <<>>
          THEN /\ stack' = <<>>
               /\ pc' = "idle"
               /\ outcome' = Append(outcome, [ok |-> TRUE, tree |-> <<node>>, error |-> NoError])
          ELSE /\ stack' = [rest EXCEPT ![Len(rest)].children =
                               IF KeepSubDir(node) THEN Append(@, node) ELSE @]
               /\ UNCHANGED <<pc, outcome>>
    /\ UNCHANGED <<toolVars, call, ret, fs, opts, err, listed, reads>>

\* lines 116-118: the catch block of the innermost scanDirectory wraps
\* whatever was thrown and throws again
Catch ==
    /\ pc = "unwinding"
    /\ LET wrapped == DirectoryError(top.dirPath, err)
           rest == SubSeq(stack, 1, Len(stack) - 1)
       IN /\ stack' = rest
          /\ IF rest = <<>>
             THEN /\ pc' = "idle"
                  /\ err' = NoError
                  /\ outcome' = Append(outcome,
                        [ok |-> FALSE, tree |-> <<>>, error |-> wrapped])
             ELSE /\ err' = wrapped
                  /\ UNCHANGED <<pc, outcome>>
    /\ UNCHANGED <<toolVars, call, ret, fs, opts, listed, reads>>

----------------------------------------------------------------------------
(* Specification Spec: scan() called NumScans times on one filesystem      *)

NumScans == 2

Roots == { <<"/", "r">>, <<"/", "b", "u", "i", "l", "d">> }

N_node_modules == <<"n","o","d","e","_","m","o","d","u","l","e","s">>
N_pkg == <<"p", "k", "g">>
N_index_js == <<"i", "n", "d", "e", "x", ".", "j", "s">>
N_B_png == <<"B", ".", "p", "n", "g">>
N_l_ts == <<"l", ".", "t", "s">>
E_png == <<".", "p", "n", "g">>
E_ts == <<".", "t", "s">>

P_src == N_src
P_src_a == JoinPath(N_src, N_a_ts)
P_src_b == JoinPath(N_src, N_B_png)
P_deep == JoinPath(N_src, N_deep)
P_deep_x == JoinPath(P_deep, N_x_ts)
P_deep_l == JoinPath(P_deep, N_l_ts)
P_nm == N_node_modules
P_pkg == JoinPath(N_node_modules, N_pkg)
P_pkg_index == JoinPath(P_pkg, N_index_js)

FileSizes == [p \in {N_a_ts, P_src_a, P_src_b, P_deep_x, P_pkg_index} |->
                 CASE p = N_a_ts -> 5 [] p = P_src_a -> 10000 [] p = P_src_b -> 0
                   [] p = P_deep_x -> 4 [] OTHER -> 8]

FaultKinds == {"ok", "missing", "statfail", "unreadable", "toolarge"}

\* the tree below root with the optional files in present, the read fault of
\* src/a.ts and the directories (relative paths) that cannot be listed
FileSystem(root, present, fault, unlistable) ==
    LET At(rel) == IF rel = <<>> THEN root ELSE root \o <<"/">> \o rel
        files == {P_src_b, P_pkg_index} \cup present
    IN [root |-> root,
        dirs |-> {At(d) : d \in {<<>>, P_src, P_deep, P_nm, P_pkg}},
        files |-> {At(f) : f \in files},
        links |-> {At(P_deep_l)},
        unlistable |-> {At(d) : d \in unlistable},
        size |-> [q \in {At(f) : f \in files} |->
                     LET f == CHOOSE f \in files : At(f) = q
                     IN IF f = P_src_a /\ fault = "toolarge" THEN MAX_SIZE + 1
                        ELSE FileSizes[f]],
        status |-> [q \in {At(f) : f \in files} |->
                     IF q = At(P_src_a) /\ fault \notin {"ok", "toolarge"}
                     THEN fault ELSE "ok"]]

FileSystems ==
    {FileSystem(root, present, fault, unlistable) :
        root \in Roots,
        present \in SUBSET {N_a_ts, P_src_a, P_deep_x},
        fault \in FaultKinds,
        unlistable \in SUBSET {<<>>, P_deep, P_pkg}}

Glob(g) == [pattern |-> g, isRegex |-> FALSE]
Regex(r) == [pattern |-> r, isRegex |-> TRUE]

DefaultScannerOptions(root) ==
    [rootDir |-> root,
     additionalIgnorePatterns |-> {}, extendDefaults |-> TRUE,
     additionalExtensions |-> {}, extendExtensions |-> TRUE,
     includePatterns |-> <<>>, calculateTokens |-> "undefined"]

ScannerOptions(root) ==
    LET d == DefaultScannerOptions(root) IN
    { d,
      [d EXCEPT !.additionalExtensions = {E_png}, !.calculateTokens = "true"],
      [d EXCEPT !.includePatterns = <<Glob(N_src \o <<"/", "*">>)>>,
                !.calculateTokens = "false"],
      [d EXCEPT !.includePatterns = <<Regex(<<"[">>)>>],
      [d EXCEPT !.extendDefaults = FALSE, !.additionalIgnorePatterns = {N_deep}],
      [d EXCEPT !.includePatterns = <<Regex(<<"^">> \o N_src), Glob(CATCH_ALL)>>,
                !.extendExtensions = FALSE, !.additionalExtensions = {E_png, E_ts}] }

Init ==
    /\ fs \in FileSystems
    /\ opts \in ScannerOptions(fs.root)
    /\ call = [fn |-> "scan", scans |-> NumScans]
    /\ ret = <<>>
    /\ pc = "idle" /\ stack = <<>> /\ err = NoError
    /\ outcome = <<>> /\ listed = <<>> /\ reads = <<>>
    /\ toolsIdle

Next ==
    \/ StartScan
    \/ ListDir
    \/ ListDirFails
    \/ SkipIgnored
    \/ Descend
    \/ ProcessFile
    \/ ReadFailureSkipped
    \/ SkipEntry
    \/ PatternThrows
    \/ ReturnDir
    \/ Catch

Spec == Init /\ [][Next]_vars

----------------------------------------------------------------------------
(* Properties of scan()                                                    *)

RECURSIVE TreeFiles(_)
\* full paths of the FileNodes in the tree below node
TreeFiles(node) ==
    IF node.type = "file" THEN {node.fullPath}
    ELSE UNION {TreeFiles(node.children[i]) : i \in 1..Len(node.children)}

RECURSIVE SubDirNodes(_)
\* the DirectoryNodes strictly below node
SubDirNodes(node) ==
    UNION { IF node.children[i].type = "directory"
            THEN {node.children[i]} \cup SubDirNodes(node.children[i])
            ELSE {} : i \in 1..Len(node.children) }

RECURSIVE RootCause(_)
\* the innermost originalError of an error
RootCause(e) == IF e.kind = "DirectoryError" THEN RootCause(e.originalError) ELSE e

Finished == 1..Len(outcome)

\* p is d or lies below d
Below(p, d) == p = d \/ StartsWith(p, d \o <<"/">>)

\* C1: scan() is deterministic: on an unchanged filesystem, with the same
\* options, any two scans return structurally identical trees, whatever the
\* order in which the directory listings enumerate the entries.
C1_ScanDeterministic ==
    \A i \in Finished : \A j \in Finished :
        /\ outcome[i].ok = outcome[j].ok
        /\ outcome[i].tree = outcome[j].tree

\* two scans returned a tree in which the root and a sub-directory have two
\* children each, so that the enumeration order could have shown
C1_Witness ==
    /\ Len(outcome) = 2 /\ outcome[1].ok /\ outcome[2].ok
    /\ Len(outcome[2].tree[1].children) >= 2
    /\ \E d \in SubDirNodes(outcome[2].tree[1]) : Len(d.children) >= 2

\* C2: in every returned tree every DirectoryNode other than the root has at
\* least one child and at least one FileNode beneath it; a directory whose
\* whole subtree is filtered out does not appear.
C2_NoEmptyDirectories ==
    \A i \in Finished : outcome[i].ok =>
        \A d \in SubDirNodes(outcome[i].tree[1]) :
            /\ Len(d.children) > 0
            /\ TreeFiles(d) # {}
            /\ TreeFiles(d) \subseteq fs.files

\* a scan of a root that is on no ignored path, whose sub-directories were
\* listed and yielded no file, returned a root node without children
C2_Witness ==
    /\ Len(outcome) >= 1 /\ outcome[1].ok
    /\ fs.root = <<"/", "r">>
    /\ pc = "idle" /\ Len(listed) >= 3
    /\ outcome[Len(outcome)].tree[1].children = <<>>

\* UTF-16 code units in ascending order, for the characters of the names
CodeUnitOrder == <<"-", ".", "/">> \o UpperCase \o <<"_">> \o LowerCase

CodeUnit(c) == CHOOSE i \in 1..Len(CodeUnitOrder) : CodeUnitOrder[i] = c

\* a < b under plain string comparison
RECURSIVE CodeUnitLess(_, _)
CodeUnitLess(a, b) ==
    IF b = <<>> THEN FALSE
    ELSE IF a = <<>> THEN TRUE
    ELSE IF a[1] # b[1] THEN CodeUnit(a[1]) < CodeUnit(b[1])
    ELSE CodeUnitLess(Tail(a), Tail(b))

\* C17: in every DirectoryNode scan() returns the children are sorted by
\* name in code-unit order: of two adjacent children the first has the
\* smaller name under plain string comparison ('B.png' before 'a.ts').
C17_ChildrenInCodeUnitOrder ==
    \A i \in Finished : outcome[i].ok =>
        \A d \in {outcome[i].tree[1]} \cup SubDirNodes(outcome[i].tree[1]) :
            \A k \in 1..(Len(d.children) - 1) :
                CodeUnitLess(d.children[k].name, d.children[k + 1].name)

\* a directory below the root whose name is in the effective ignore set
IgnoredDir(d) == d \in fs.dirs /\ d # fs.root /\ BaseName(d) \in ignorePatterns

\* C3: a directory whose name is in the effective ignore set is pruned
\* before descending: neither it nor anything below it is ever listed or
\* read, so a directory below it that cannot be listed cannot fail the scan.
C3_IgnoredDirsPruned ==
    \A d \in fs.dirs : IgnoredDir(d) =>
        /\ \A i \in 1..Len(listed) : ~Below(listed[i], d)
        /\ \A i \in 1..Len(reads) : ~Below(reads[i], d)
        /\ \A i \in Finished :
              (~outcome[i].ok /\ RootCause(outcome[i].error).kind = "SystemError")
                  => ~Below(RootCause(outcome[i].error).path, d)

\* a scan succeeded although node_modules/pkg cannot be listed
C3_Witness ==
    /\ Len(outcome) >= 1 /\ outcome[1].ok /\ pc = "idle"
    /\ fs.root = <<"/", "r">>
    /\ N_node_modules \in ignorePatterns
    /\ fs.root \o <<"/">> \o P_pkg \in fs.unlistable
    /\ Len(listed) >= 2

\* some segment of path is exactly a member of the effective ignore set
HasIgnoredSegment(path) ==
    \E i \in 1..(Len(path) + 1) : \E j \in (i - 1)..Len(path) :
        IsSegment(path, i, j) /\ SubSeq(path, i, j) \in ignorePatterns

\* the substring of path from its last dot
ExtensionOf(path) == Drop(path, LastIndexOf(path, "."))

\* the root-relative path matches at least one include pattern
MatchesSomePattern(path) ==
    \E i \in 1..Len(opts.includePatterns) :
        matchPattern(getRelativePath(path, opts.rootDir), opts.includePatterns[i])
            = Returned(TRUE)

PassesFilters(path) ==
    /\ ~HasIgnoredSegment(path)
    /\ ExtensionOf(path) \in includeExtensions

\* C4: shouldProcessFile accepts a file iff no segment of its path is
\* ignored AND its extension is included AND, when include patterns were
\* given, its root-relative path matches one of them; a pattern is only
\* consulted for, and can only admit, a file that passes the two filters.
C4_AndSemantics ==
    /\ \A f \in fs.files :
          LET r == shouldProcessFile(f) IN
          /\ r.threw => PassesFilters(f)
          /\ ~r.threw =>
                r.val = ( /\ PassesFilters(f)
                          /\ (Len(opts.includePatterns) > 0 => MatchesSomePattern(f)) )
    /\ \A i \in 1..Len(reads) :
          /\ PassesFilters(reads[i])
          /\ Len(opts.includePatterns) > 0 => MatchesSomePattern(reads[i])

\* a scan with include patterns read a file and left out a file that matches
\* a pattern but has an extension outside the include set
C4_Witness ==
    /\ Len(outcome) >= 1 /\ outcome[1].ok /\ pc = "idle"
    /\ Len(opts.includePatterns) > 0
    /\ Len(reads) >= 1
    /\ \E f \in fs.files :
          /\ MatchesSomePattern(f)
          /\ ~HasIgnoredSegment(f)
          /\ ExtensionOf(f) \notin includeExtensions
          /\ f \notin SeqToSet(reads)
          /\ f \notin TreeFiles(outcome[1].tree[1])

ReadFails(f) == readFile(f, [calculateTokens |-> opts.calculateTokens]).error.kind # "none"

\* C6: a per-file read failure never fails the scan: a scan fails only for a
\* directory listing or a pattern, the failing file is left out, and every
\* other eligible file is in the returned tree.
C6_ReadFailureSkipsFileOnly ==
    \A i \in Finished :
        /\ ~outcome[i].ok =>
              RootCause(outcome[i].error).kind \in {"SystemError", "PatternError"}
        /\ outcome[i].ok =>
              \A f \in fs.files :
                  shouldProcessFile(f) = Returned(TRUE) =>
                      (f \in TreeFiles(outcome[i].tree[1]) <=> ~ReadFails(f))

\* a scan returned a tree without the file that could not be read and with
\* its sibling, a file of a sub-directory and a file of the root
C6_Witness ==
    /\ Len(outcome) >= 1 /\ outcome[1].ok
    /\ LET At(rel) == fs.root \o <<"/">> \o rel
           files == TreeFiles(outcome[1].tree[1])
       IN /\ At(P_src_a) \in fs.files
          /\ shouldProcessFile(At(P_src_a)) = Returned(TRUE)
          /\ ReadFails(At(P_src_a))
          /\ At(P_src_a) \notin files
          /\ {At(P_src_b), At(P_deep_x), At(N_a_ts)} \subseteq files

\* C7: when a directory reached by scan() cannot be listed, scan() returns
\* no tree and raises a DirectoryError whose path is the directory that
\* could not be listed, and no directory is listed twice.
C7_ErrorNamesFailingDirectory ==
    /\ \A i \in Finished :
          (~outcome[i].ok /\ RootCause(outcome[i].error).kind = "SystemError") =>
              /\ outcome[i].tree = <<>>
              /\ outcome[i].error.kind = "DirectoryError"
              /\ outcome[i].error.path = RootCause(outcome[i].error).path
    /\ \A i \in 1..Len(listed) : \A j \in 1..Len(listed) :
          listed[i] = listed[j] => i = j

RECURSIVE NodeChains(_)
\* the chains of nodes that lead from node down to each FileNode below it
NodeChains(node) ==
    IF node.type = "file" THEN {<<node>>}
    ELSE {<<node>> \o c :
            c \in UNION {NodeChains(node.children[i]) : i \in 1..Len(node.children)}}

\* a regular file that the scan has to return: no segment of its path is
\* ignored, its extension is included, it matches an include pattern when
\* patterns were given, and it can be read
Selected(f) ==
    /\ f \in fs.files
    /\ Below(f, fs.root)
    /\ PassesFilters(f)
    /\ Len(opts.includePatterns) > 0 => MatchesSomePattern(f)
    /\ ~ReadFails(f)

\* the chain starts at the root, every node is the child named after it of
\* the node before, and the relative path of every node is the names joined
MirrorsPath(chain) ==
    /\ chain[1].fullPath = opts.rootDir
    /\ chain[1].path = <<>>
    /\ \A k \in 2..Len(chain) :
          /\ chain[k].fullPath = chain[k - 1].fullPath \o <<"/">> \o chain[k].name
          /\ chain[k].path = JoinPath(chain[k - 1].path, chain[k].name)
          /\ chain[k - 1].type = "directory"

\* C23: the FileNodes of a returned tree are exactly the regular files under
\* the root that lie under no ignored directory, pass the filters of
\* shouldProcessFile and are read without error; each of them appears once,
\* at the end of the chain of DirectoryNodes that mirrors its relative path.
C23_TreeIsExactlyTheSelectedFiles ==
    \A i \in Finished :
        outcome[i].ok =>
            LET chains == NodeChains(outcome[i].tree[1])
                File(c) == c[Len(c)].fullPath
            IN /\ {File(c) : c \in chains} = {f \in fs.files : Selected(f)}
               /\ \A c \in chains : \A d \in chains : File(c) = File(d) => c = d
               /\ \A c \in chains : MirrorsPath(c)

\* the scan of /r with the default options returned root -> src -> a.ts
\* only, with src/B.png and node_modules/pkg/index.js on the disk
C23_Witness ==
    /\ Len(outcome) >= 1 /\ outcome[1].ok
    /\ opts = DefaultScannerOptions(<<"/", "r">>)
    /\ {fs.root \o <<"/">> \o f : f \in {P_src_b, P_pkg_index}} \subseteq fs.files
    /\ LET chains == NodeChains(outcome[1].tree[1])
       IN /\ Cardinality(chains) = 1
          /\ \E c \in chains :
                /\ Len(c) = 3
                /\ c[2].name = N_src
                /\ c[3].name = N_a_ts
                /\ c[3].path = P_src_a

\* a regular file selected by looking at its root-relative path only
SelectedBelowRoot(f) ==
    /\ f \in fs.files
    /\ Below(f, fs.root)
    /\ ~HasIgnoredSegment(getRelativePath(f, opts.rootDir))
    /\ ExtensionOf(f) \in includeExtensions
    /\ Len(opts.includePatterns) > 0 => MatchesSomePattern(f)
    /\ ~ReadFails(f)

\* C24: whether an entry is skipped depends only on the path segments below
\* the scan root, so the root-relative paths of the FileNodes of a returned
\* tree are those of the files selected by their root-relative path alone,
\* also when the absolute path of the root holds a name of the ignore set.
C24_RootPathIrrelevant ==
    \A i \in Finished :
        outcome[i].ok =>
            LET chains == NodeChains(outcome[i].tree[1])
            IN {c[Len(c)].path : c \in chains}
                 = {getRelativePath(f, opts.rootDir) : f \in {g \in fs.files : SelectedBelowRoot(g)}}

\* C25: when the scanner options leave calculateTokens unspecified, the
\* default of FileReader (true) applies and every FileNode of a returned
\* tree carries tokenCount = ceil(length of content / 4); a file of 10 000
\* characters carries 2500.
C25_TokenCountByDefault ==
    \A i \in Finished :
        (outcome[i].ok /\ opts.calculateTokens = "undefined") =>
            \A c \in NodeChains(outcome[i].tree[1]) :
                LET node == c[Len(c)]
                IN /\ node.tokenCount = <<(node.content + 3) \div 4>>
                   /\ node.content = 10000 => node.tokenCount = <<2500>>

\* C26: when an include pattern that is an invalid regular expression is
\* evaluated against a file, the scan returns no tree and the error that
\* reaches the caller of scan() is the PatternError with the pattern, not a
\* DirectoryError; the file is not taken for a non-match.
C26_PatternErrorReachesCaller ==
    \A i \in Finished :
        /\ outcome[i].ok => \A f \in fs.files : ~shouldProcessFile(f).threw
        /\ (~outcome[i].ok /\ RootCause(outcome[i].error).kind = "PatternError") =>
              /\ outcome[i].tree = <<>>
              /\ outcome[i].error = RootCause(outcome[i].error)
              /\ \E k \in 1..Len(opts.includePatterns) :
                    outcome[i].error = PatternError(opts.includePatterns[k].pattern)

----------------------------------------------------------------------------
(* CodebaseCapture (captureCodebase.ts)                                    *)

CAPTURE_IGNORE_PATTERNS == DEFAULT_IGNORE_PATTERNS \cup {
    <<"p","a","s","t","e",".","t","x","t">>,
    <<"c","o","d","e","b","a","s","e","-","s","n","a","p","s","h","o","t",
      ".","j","s","o","n">> }

captureParsePatternInput(content) ==
    IF Trim(content) = <<>> THEN <<[pattern |-> CATCH_ALL, isRegex |-> FALSE]>>
    ELSE LET raw == SplitAt(content, {"\n"}, 1, <<>>)
             lines == [i \in 1..Len(raw) |-> Trim(raw[i])]
             IsPattern(line) == line # <<>> /\ ~StartsWith(line, <<"#">>)
             kept == SelectSeq(lines, IsPattern)
             Parsed(line) ==
                 LET parts == SplitAt(line, {","}, 1, <<>>)
                     pattern == Trim(parts[1])
                     typeStr == IF Len(parts) >= 2 THEN Trim(parts[2]) ELSE S_simple
                 IN [pattern |-> IF StartsWith(pattern, <<".", "/">>)
                                 THEN Drop(pattern, 3) ELSE pattern,
                     isRegex |-> ToLowerCase(typeStr) = S_regex]
         IN [i \in 1..Len(kept) |-> Parsed(kept[i])]

\* csv is <<>> when the pattern file does not exist, <<content>> otherwise
loadPatterns(csv) ==
    IF csv = <<>> THEN <<[pattern |-> CATCH_ALL, isRegex |-> FALSE]>>
    ELSE captureParsePatternInput(csv[1])

\* lines 156-174 for one pattern: an invalid regex is a non-match, an
\* invalid translated glob throws
captureMatch(relativePath, pattern) ==
    IF pattern.isRegex
    THEN LET regex == RegexParse(pattern.pattern, 1, <<>>)
         IN Returned(regex.ok /\ RegexTest(regex.items, relativePath))
    ELSE LET dots  == ReplaceAll(pattern.pattern, <<".">>, <<"\\", ".">>)
             stars == ReplaceAll(dots, <<"*", "*">>, <<".", "*">>)
             star  == ReplaceAll(stars, <<"*">>, <<"[", "^", "/", "]", "*">>)
             regex == RegexParse(star, 1, <<>>)
         IN IF regex.ok THEN Returned(RegexTest(regex.items, relativePath))
            ELSE Threw([kind |-> "SyntaxError", pattern |-> pattern.pattern])

RECURSIVE captureSome(_, _, _)
captureSome(relativePath, patterns, i) ==
    IF i > Len(patterns) THEN Returned(FALSE)
    ELSE LET m == captureMatch(relativePath, patterns[i]) IN
         IF m.threw \/ m.val THEN m ELSE captureSome(relativePath, patterns, i + 1)

shouldCapture(entryPath, rootDir, includePatterns) ==
    IF BaseName(entryPath) \in CAPTURE_IGNORE_PATTERNS THEN Returned(FALSE)
    ELSE IF Len(includePatterns) = 0 THEN Returned(TRUE)
    ELSE captureSome(PathRelative(rootDir, entryPath), includePatterns, 1)

\* length of the content readFileContent returns: 0 for '' after a failure
readFileContent(filepath) ==
    IF FileStatus(filepath) = "ok" THEN fs.size[filepath] ELSE 0

\* the files of the DirectoryStructure that scanDirectory returns for
\* currentPath, sub-directories included (the order of the lists is the
\* enumeration order of readdirSync)
RECURSIVE captureScanDirectory(_, _, _)
captureScanDirectory(currentPath, rootDir, includePatterns) ==
    IF ~Listable(currentPath) THEN {}
    ELSE LET paths == {currentPath \o <<"/">> \o name : name \in Entries(currentPath)}
             filePaths == paths \cap fs.files
             dirPaths == {d \in paths \cap fs.dirs : BaseName(d) \notin CAPTURE_IGNORE_PATTERNS}
         IN IF \E f \in filePaths : shouldCapture(f, rootDir, includePatterns).threw
            THEN {}
            ELSE {[path |-> PathRelative(rootDir, f), content |-> readFileContent(f)] :
                     f \in {f \in filePaths :
                               /\ shouldCapture(f, rootDir, includePatterns).val
                               /\ readFileContent(f) # 0}}
                 \cup UNION {captureScanDirectory(d, rootDir, includePatterns) : d \in dirPaths}

----------------------------------------------------------------------------
(* Specification SpecCapture: capture(rootDir) with and without a pattern  *)
(* file                                                                    *)

CaptureContents == { <<>>, <<"\n">>, <<"#", "c">>,
                     N_src \o <<"/", "*">>,
                     <<"\\", ".", "t", "s", "$", ",", "r", "e", "g", "e", "x">>,
                     <<"[", ",", "r", "e", "g", "e", "x", "\n", "*", ".", "t", "s">>,
                     <<"[">> }

InitCapture ==
    /\ fs \in FileSystems
    /\ call \in [fn : {"capture"}, rootDir : {fs.root},
                 csv : {<<>>} \cup {<<c>> : c \in CaptureContents}]
    /\ ret = <<>>
    /\ opts = <<>> /\ pc = "idle" /\ stack = <<>> /\ err = NoError
    /\ outcome = <<>> /\ listed = <<>> /\ reads = <<>>
    /\ toolsIdle

\* capture(), line 284: this.includePatterns is set
LoadPatterns ==
    /\ call.fn = "capture" /\ ret = <<>>
    /\ ret' = <<loadPatterns(call.csv)>>
    /\ UNCHANGED <<toolVars, call, fs, opts, pc, stack, err, outcome, listed, reads>>

\* capture(), lines 287-297: the tree is scanned and, unless the output is
\* empty, paste.txt is written
ScanAndWrite ==
    /\ call.fn = "capture" /\ Len(ret) = 1
    /\ LET files == captureScanDirectory(call.rootDir, call.rootDir, ret[1])
       IN ret' = Append(ret, [files |-> files, written |-> files # {}])
    /\ UNCHANGED <<toolVars, call, fs, opts, pc, stack, err, outcome, listed, reads>>

NextCapture == LoadPatterns \/ ScanAndWrite

SpecCapture == InitCapture /\ [][NextCapture]_vars

\* no directory between the root and f has an ignored name
UnderNoIgnoredDir(f, rootDir) ==
    \A d \in fs.dirs : (d # rootDir /\ Below(f, d) /\ f # d) =>
        BaseName(d) \notin CAPTURE_IGNORE_PATTERNS

\* C10: when the pattern file does not exist the capture includes every
\* (readable, non-empty) file whose basename is not ignored and that lies
\* under no ignored directory, at every depth, the root directory included.
C10_NoPatternFileCapturesAll ==
    (call.fn = "capture" /\ call.csv = <<>> /\ Len(ret) = 2) =>
        \A f \in fs.files :
            ( /\ BaseName(f) \notin CAPTURE_IGNORE_PATTERNS
              /\ UnderNoIgnoredDir(f, call.rootDir)
              /\ \A d \in fs.dirs : (Below(f, d) /\ f # d) => Listable(d)
              /\ readFileContent(f) # 0 )
            => \E c \in ret[2].files : c.path = PathRelative(call.rootDir, f)

\* content has a '#' line and nothing but '#' lines and blank lines
CommentOnly(content) ==
    LET raw == SplitAt(content, {"\n"}, 1, <<>>)
    IN /\ \A i \in 1..Len(raw) :
             Trim(raw[i]) = <<>> \/ StartsWith(Trim(raw[i]), <<"#">>)
       /\ \E i \in 1..Len(raw) : StartsWith(Trim(raw[i]), <<"#">>)

\* C30: a pattern file that holds only '#' comment lines selects the same
\* files as an empty pattern file: the capture configured from it holds
\* exactly the files of the capture configured from the empty file.
C30_CommentOnlyLikeBlank ==
    (call.fn = "capture" /\ call.csv # <<>> /\ Len(ret) = 2) =>
        (CommentOnly(call.csv[1]) =>
            ret[2].files = captureScanDirectory(call.rootDir, call.rootDir,
                                                loadPatterns(<< <<>> >>)))

----------------------------------------------------------------------------
(* Specification SpecReader: FileReader.readFile and readFileSync on one   *)
(* file in every condition the reader distinguishes                        *)

MaxLength == 8

P_file == <<"/", "r", "/">> \o N_a_ts

ReaderStatuses == {"ok", "missing", "existsfault", "statfail", "unreadable"}
ReaderSizes == 0..MaxLength \cup {MAX_SIZE - 1, MAX_SIZE, MAX_SIZE + 1}

ReaderFileSystems ==
    {[files |-> IF st = "missing" THEN {} ELSE {P_file},
      status |-> [q \in {P_file} |-> st],
      size |-> [q \in {P_file} |-> n]] : st \in ReaderStatuses, n \in ReaderSizes}

\* the options argument: each key may be left out
ReaderOptions ==
    LET Full == [calculateTokens : {"true", "false", "undefined"},
                 maxSize : {4}]
    IN {[k \in K |-> o[k]] : K \in SUBSET {"calculateTokens", "maxSize"}, o \in Full}

InitReader ==
    /\ fs \in ReaderFileSystems
    /\ call \in [fn : {"readFile", "readFileSync"}, path : {P_file},
                 options : ReaderOptions]
    /\ ret = <<>>
    /\ opts = <<>> /\ pc = "idle" /\ stack = <<>>
    /\ err = NoError /\ outcome = <<>> /\ listed = <<>> /\ reads = <<>>
    /\ toolsIdle

CallReadFile ==
    /\ call.fn = "readFile" /\ ret = <<>>
    /\ ret' = <<readFileCall(call.path, call.options)>>
    /\ UNCHANGED <<toolVars, call, fs, opts, pc, stack, err, outcome, listed, reads>>

CallReadFileSync ==
    /\ call.fn = "readFileSync" /\ ret = <<>>
    /\ ret' = <<readFileSync(call.path, call.options)>>
    /\ UNCHANGED <<toolVars, call, fs, opts, pc, stack, err, outcome, listed, reads>>

NextReader == CallReadFile \/ CallReadFileSync

SpecReader == InitReader /\ [][NextReader]_vars

\* the options in force for the pending call
Effective == MergeOptions(DEFAULT_OPTIONS, call.options)

\* the file of the pending call cannot be read in full
MustFail ==
    \/ FileStatus(call.path) # "ok"
    \/ fs.size[call.path] > Effective.maxSize

\* C14: readFile never throws: for every failure (missing path, faulting
\* existence check, failing stat, size limit, failing read) it returns a
\* result with a FileReadError and empty content, on success a result
\* without error; readFileSync throws exactly the error readFile returns.
C14_ReadFileNeverThrows ==
    /\ (call.fn = "readFile" /\ ret # <<>>) =>
          /\ ~ret[1].threw
          /\ IF MustFail
             THEN ret[1].val.error.kind = "FileReadError" /\ ret[1].val.content = 0
             ELSE ret[1].val.error.kind = "none"
    /\ (call.fn = "readFileSync" /\ ret # <<>>) =>
          IF MustFail
          THEN /\ ret[1].threw
               /\ ret[1].error.kind = "FileReadError"
               /\ ret[1].error = readFile(call.path, call.options).error
          ELSE /\ ~ret[1].threw
               /\ ret[1].val = readFile(call.path, call.options).content

C14_Witness ==
    /\ call.fn = "readFile" /\ ret # <<>>
    /\ FileStatus(call.path) = "existsfault"
    /\ ~ret[1].threw /\ ret[1].val.error.kind = "FileReadError"

IsSizeLimitError(e) ==
    e.kind = "FileReadError" /\ e.message.text = "File size exceeds maximum size"

\* C15: for a file that exists and can be stat-ed, readFile returns the
\* size-limit error exactly when the size is strictly greater than maxSize
\* (10 MiB unless given); the error names the actual and the maximum size
\* and the content of the file is not read.
C15_SizeLimitStrict ==
    ( /\ call.fn = "readFile" /\ ret # <<>>
      /\ FileStatus(call.path) \in {"ok", "unreadable"} ) =>
        LET limit == IF "maxSize" \in DOMAIN call.options
                     THEN call.options.maxSize ELSE 10 * 1024 * 1024
            e == ret[1].val.error
        IN /\ ~ret[1].threw
           /\ IsSizeLimitError(e) <=> (fs.size[call.path] > limit)
           /\ IsSizeLimitError(e) =>
                 /\ e.message.numbers = <<fs.size[call.path], limit>>
                 /\ \A i \in 1..Len(ret[1].ops) : ret[1].ops[i] # "readFileSync"

C15_Witness ==
    /\ call.fn = "readFile" /\ ret # <<>>
    /\ "maxSize" \notin DOMAIN call.options
    /\ FileStatus(call.path) = "ok" /\ fs.size[call.path] = MAX_SIZE + 1
    /\ IsSizeLimitError(ret[1].val.error)

\* C16: with token counting enabled the tokenCount readFile returns for
\* content of length n is ceil(n / 4): the least t with 4 * t >= n, so
\* lengths 0, 1, 4, 5 give 0, 1, 1, 2, and no shorter content counts more.
C16_TokenCountIsCeiling ==
    ( /\ call.fn = "readFile" /\ ret # <<>>
      /\ Effective.calculateTokens = "true" /\ ~MustFail ) =>
        LET n == ret[1].val.content
            count == ret[1].val.tokenCount
            Expected == [m \in {0, 1, 4, 5} |->
                            CASE m = 0 -> 0 [] m = 1 -> 1 [] m = 4 -> 1 [] OTHER -> 2]
        IN /\ n = fs.size[call.path]
           /\ Len(count) = 1
           /\ 4 * count[1] >= n /\ 4 * (count[1] - 1) < n
           /\ n \in DOMAIN Expected => count[1] = Expected[n]
           /\ \A m \in 0..MaxLength : m <= n => calculateTokens(m) <= count[1]

C16_Witness ==
    /\ call.fn = "readFile" /\ ret # <<>>
    /\ Effective.calculateTokens = "true"
    /\ fs.size[call.path] = 5
    /\ ret[1].val.tokenCount = <<2>>

----------------------------------------------------------------------------
(* Summarizer: main, walkDirectory, processFile and the summary cache.     *)
(* Paths are relative to PROJECT_ROOT; the content of a file is a version  *)
(* number, and a summary is known by the content it was generated from.    *)
(* source.asRead[f] and source.unchanged[f] are history: f has not been     *)
(* edited since generateSummary last read it, and since the read of the    *)
(* last summarization of f that ended with its record written.             *)

ignoreDirs ==
    { <<"n", "o", "d", "e", "_", "m", "o", "d", "u", "l", "e", "s">>,
      <<"d", "i", "s", "t">>,
      <<"b", "u", "i", "l", "d">>,
      <<"c", "o", "v", "e", "r", "a", "g", "e">>,
      <<".", "g", "i", "t">>,
      <<".", "c", "a", "c", "h", "e">>,
      <<".", "n", "e", "x", "t">>,
      <<"_", "_", "p", "y", "c", "a", "c", "h", "e", "_", "_">>,
      <<"s", "u", "m", "m", "a", "r", "i", "e", "s">> }

ignoreFiles ==
    { <<".", "D", "S", "_", "S", "t", "o", "r", "e">>,
      <<"p", "a", "c", "k", "a", "g", "e", "-", "l", "o", "c", "k", ".", "j", "s", "o", "n">>,
      <<"p", "a", "s", "t", "e", ".", "t", "x", "t">> }

INCLUDE_EXTENSIONS ==
    { <<".", "t", "s">>,
      <<".", "t", "s", "x">>,
      <<".", "t", "x", "t">>,
      <<".", "j", "s">>,
      <<".", "j", "s", "x">>,
      <<".", "j", "s", "o", "n">>,
      <<".", "d", ".", "t", "s">>,
      <<".", "m", "d">>,
      <<".", "g", "i", "t", "i", "g", "n", "o", "r", "e">> }

\* path.extname: from the last '.' of the basename, unless that is its first
\* character or there is none
extname(filePath) ==
    LET base == BaseName(filePath)
        dot == LastIndexOf(base, ".")
    IN IF dot <= 1 THEN <<>> ELSE Drop(base, dot)

summarizerShouldProcessFile(filePath) ==
    LET parts == SplitAt(filePath, {"/"}, 1, <<>>)
    IN /\ ~\E i \in 1..Len(parts) : parts[i] \in ignoreDirs
       /\ BaseName(filePath) \notin ignoreFiles
       /\ extname(filePath) \in INCLUDE_EXTENSIONS

\* crypto md5 of a content; distinct contents of the model have distinct hashes
calculateFileHash(content) == <<"md5", content>>

NoRecord == [kind |-> "none"]
CorruptRecord == [kind |-> "corrupt"]

\* the SummaryMetadata saveSummary writes: summary.of is the content the
\* summary was generated from, summary.blank says that the sanitized text is ''
SummaryRecord(filePath, summary, fileHash) ==
    [kind |-> "record", filePath |-> filePath, summary |-> summary,
     fileHash |-> fileHash]

\* <<metadata>>, or <<>> for null: no file, no JSON, or a falsy field
getSummaryMetadata(filePath) ==
    LET r == records[filePath]
    IN IF r.kind # "record" THEN <<>>
       ELSE IF r.summary.blank THEN <<>>
       ELSE <<r>>

needsNewSummary(filePath) ==
    LET metadata == getSummaryMetadata(filePath)
    IN IF metadata = <<>> THEN TRUE
       ELSE calculateFileHash(source.content[filePath]) # metadata[1].fileHash

\* the project: files and directories, by path
SumDirs == {<<>>, N_src, <<"s", "u", "m", "m", "a", "r", "i", "e", "s">>}
SumFiles == {N_a_ts, N_B_png, JoinPath(N_src, N_x_ts)}

\* fs.readdir(dir): the names of the entries of dir
SumEntries(dir) ==
    {q \in (SumDirs \cup SumFiles) \ {<<>>} :
        IF dir = <<>> THEN LastIndexOf(q, "/") = 0
        ELSE StartsWith(q, dir \o <<"/">>) /\ LastIndexOf(q, "/") = Len(dir) + 1}

MaxRuns == 2
MaxEdits == 2
Versions == {1, 2}

Walk(p, run) ==
    [pc |-> p, run |-> run, frames |-> <<>>, dir |-> <<>>, cur |-> <<>>,
     content |-> <<>>, summary |-> <<>>, hash |-> <<>>, exit |-> <<>>,
     decision |-> <<>>, caught |-> <<>>]

InitSummarizer ==
    /\ source = [content |-> [f \in SumFiles |-> 1], edits |-> 0,
                 asRead |-> [f \in SumFiles |-> FALSE],
                 unchanged |-> [f \in SumFiles |-> FALSE]]
    /\ records = [f \in SumFiles |-> NoRecord]
    /\ walk = Walk("idle", 0)
    /\ api = [inflight |-> {}, calls |-> <<>>]   \* calls: those of the current run
    /\ git = <<>>
    /\ call = NoCall /\ ret = <<>>
    /\ fs = <<>> /\ opts = <<>> /\ pc = "idle" /\ stack = <<>>
    /\ err = NoError /\ outcome = <<>> /\ listed = <<>> /\ reads = <<>>

\* main(), lines 289-296: the summaries directory is made and the walk
\* starts at PROJECT_ROOT
StartMain ==
    /\ walk.pc = "idle" /\ walk.run < MaxRuns
    /\ walk' = [Walk("list", walk.run + 1) EXCEPT !.dir = <<>>]
    /\ api' = [api EXCEPT !.calls = <<>>]
    /\ UNCHANGED <<call, ret, scanVars, source, records, git>>

\* walkDirectory, line 274: the entries of the directory are read
ReadDir ==
    /\ walk.pc = "list"
    /\ walk' = [walk EXCEPT !.pc = "walk",
                            !.frames = Append(@, [dir |-> walk.dir,
                                                  pending |-> SumEntries(walk.dir)])]
    /\ UNCHANGED <<call, ret, scanVars, source, records, api, git>>

\* line 274 throws: nothing catches it before main, lines 298-301
ReadDirFails ==
    /\ walk.pc = "list"
    /\ walk' = [walk EXCEPT !.pc = "idle", !.frames = <<>>, !.exit = <<1>>]
    /\ UNCHANGED <<call, ret, scanVars, source, records, api, git>>

topFrame == walk.frames[Len(walk.frames)]

\* the walk with entry e of the innermost directory taken
Taken(e) == [walk EXCEPT !.frames[Len(walk.frames)].pending = @ \ {e},
                         !.decision = <<>>, !.caught = <<>>]

\* lines 279-282: a directory that is not ignored is walked
VisitDirectory ==
    /\ walk.pc = "walk"
    /\ \E e \in topFrame.pending :
          /\ e \in SumDirs /\ BaseName(e) \notin ignoreDirs
          /\ walk' = [Taken(e) EXCEPT !.pc = "list", !.dir = e]
    /\ UNCHANGED <<call, ret, scanVars, source, records, api, git>>

SkipDirectory ==
    /\ walk.pc = "walk"
    /\ \E e \in topFrame.pending :
          /\ e \in SumDirs /\ BaseName(e) \in ignoreDirs
          /\ walk' = Taken(e)
    /\ UNCHANGED <<call, ret, scanVars, source, records, api, git>>

\* lines 284 and 255-257: processFile returns for a file that is not eligible
ProcessFileNotEligible ==
    /\ walk.pc = "walk"
    /\ \E e \in topFrame.pending :
          /\ e \in SumFiles /\ ~summarizerShouldProcessFile(e)
          /\ walk' = Taken(e)
    /\ UNCHANGED <<call, ret, scanVars, source, records, api, git>>

ProcessFileEligible ==
    /\ walk.pc = "walk"
    /\ \E e \in topFrame.pending :
          /\ e \in SumFiles /\ summarizerShouldProcessFile(e)
          /\ walk' = [Taken(e) EXCEPT !.pc = "check", !.cur = e]
    /\ UNCHANGED <<call, ret, scanVars, source, records, api, git>>

\* processFile is over
Processed(w) ==
    [w EXCEPT !.pc = "walk", !.cur = <<>>, !.content = <<>>, !.summary = <<>>,
              !.hash = <<>>]

\* a variant without the try block of processFile: the error ends the walk
\* and reaches the catch block of main
CaughtByMain(w, error) ==
    [Processed(w) EXCEPT !.pc = "idle", !.frames = <<>>, !.exit = <<1>>,
                         !.caught = <<error>>]

\* lines 268-270: the error is caught and logged, processFile is over
Caught(w, error) == [Processed(w) EXCEPT !.caught = <<error>>]

\* lines 259-262: needsNewSummary decides; decision keeps what it returned,
\* for which file and after how many edits
NeedsNewSummary ==
    /\ walk.pc = "check"
    /\ LET needs == needsNewSummary(walk.cur)
           decided == [file |-> walk.cur, needs |-> needs, edits |-> source.edits]
       IN walk' = IF needs
                  THEN [walk EXCEPT !.pc = "read", !.decision = <<decided>>]
                  ELSE [Processed(walk) EXCEPT !.decision = <<decided>>]
    /\ UNCHANGED <<call, ret, scanVars, source, records, api, git>>

\* generateSummary, line 71: the content is read
GenerateSummaryRead ==
    /\ walk.pc = "read"
    /\ walk' = [walk EXCEPT !.pc = "call", !.content = <<source.content[walk.cur]>>]
    /\ source' = [source EXCEPT !.asRead[walk.cur] = TRUE]
    /\ UNCHANGED <<call, ret, scanVars, records, api, git>>

NotAwaited(w) == [w EXCEPT !.pc = "walk", !.cur = <<>>]

\* 'await': the caller is suspended until the call settles
Awaited(w) == [w EXCEPT !.pc = "await"]

\* line 106: anthropic.messages.create is called
MessagesCreate ==
    /\ walk.pc = "call"
    /\ api' = [inflight |-> api.inflight \cup {walk.cur},
               calls |-> Append(api.calls, [run |-> walk.run, file |-> walk.cur,
                                            content |-> walk.content[1]])]
    /\ walk' = Awaited(walk)
    /\ UNCHANGED <<call, ret, scanVars, source, records, git>>

\* the answers of the API: text, text of white space only, or a first
\* block that is not text
Responses == {"text", "blank", "tool_use"}

\* lines 116-122: the call returns; a first block that is not text throws
MessagesCreateReturns ==
    /\ api.inflight # {}
    /\ \E f \in api.inflight, kind \in Responses :
          /\ api' = [api EXCEPT !.inflight = @ \ {f}]
          /\ walk' = IF walk.pc = "await" /\ walk.cur = f
                     THEN IF kind = "tool_use"
                          THEN Caught(walk, "Expected a text response from Claude")
                          ELSE [walk EXCEPT !.pc = "save",
                                   !.summary = <<[of |-> walk.content[1],
                                                  blank |-> kind = "blank"]>>]
                     ELSE walk
    /\ UNCHANGED <<call, ret, scanVars, source, records, git>>

\* the call fails: the rejection is caught on lines 268-270
MessagesCreateFails ==
    /\ api.inflight # {}
    /\ \E f \in api.inflight :
          /\ api' = [api EXCEPT !.inflight = @ \ {f}]
          /\ walk' = IF walk.pc = "await" /\ walk.cur = f
                     THEN Caught(walk, "APIError") ELSE walk
    /\ UNCHANGED <<call, ret, scanVars, source, records, git>>

\* saveSummary, line 133: the hash of the file as it is now
SaveSummaryHash ==
    /\ walk.pc = "save"
    /\ walk' = [walk EXCEPT !.pc = "write",
                   !.hash = <<calculateFileHash(source.content[walk.cur])>>]
    /\ UNCHANGED <<call, ret, scanVars, source, records, api, git>>

\* lines 136-159: the record is written
SaveSummaryWrite ==
    /\ walk.pc = "write"
    /\ records' = [records EXCEPT ![walk.cur] =
                      SummaryRecord(walk.cur, walk.summary[1], walk.hash[1])]
    /\ source' = [source EXCEPT !.unchanged[walk.cur] = source.asRead[walk.cur]]
    /\ walk' = [Processed(walk) EXCEPT !.decision = <<>>]
    /\ UNCHANGED <<call, ret, scanVars, api, git>>

\* mkdir or writeFile fails, lines 136 and 155-163: the record file is as it
\* was or is left incomplete; the error is caught on lines 268-270
SaveSummaryFails ==
    /\ walk.pc = "write"
    /\ \E r \in {records[walk.cur], CorruptRecord} :
          records' = [records EXCEPT ![walk.cur] = r]
    /\ walk' = [Caught(walk, "SystemError") EXCEPT !.decision = <<>>]
    /\ UNCHANGED <<call, ret, scanVars, source, api, git>>

\* lines 277-286: the loop over the entries of a directory is over
ReturnFromWalk ==
    /\ walk.pc = "walk" /\ topFrame.pending = {}
    /\ LET rest == SubSeq(walk.frames, 1, Len(walk.frames) - 1)
       IN walk' = IF rest = <<>>
                  THEN [walk EXCEPT !.pc = "idle", !.frames = rest, !.exit = <<0>>,
                                    !.decision = <<>>, !.caught = <<>>]
                  ELSE [walk EXCEPT !.frames = rest, !.decision = <<>>,
                                    !.caught = <<>>]
    /\ UNCHANGED <<call, ret, scanVars, source, records, api, git>>

\* somebody edits a source file, at any moment
EditFile ==
    /\ source.edits < MaxEdits
    /\ \E f \in SumFiles, v \in Versions :
          /\ summarizerShouldProcessFile(f)
          /\ v # source.content[f]
          /\ source' = [content |-> [source.content EXCEPT ![f] = v],
                        edits |-> source.edits + 1,
                        asRead |-> [source.asRead EXCEPT ![f] = FALSE],
                        unchanged |-> [source.unchanged EXCEPT ![f] = FALSE]]
    /\ UNCHANGED <<call, ret, scanVars, records, walk, api, git>>

NextSummarizer ==
    \/ StartMain
    \/ ReadDir
    \/ ReadDirFails
    \/ VisitDirectory
    \/ SkipDirectory
    \/ ProcessFileNotEligible
    \/ ProcessFileEligible
    \/ NeedsNewSummary
    \/ GenerateSummaryRead
    \/ MessagesCreate
    \/ MessagesCreateReturns
    \/ MessagesCreateFails
    \/ SaveSummaryHash
    \/ SaveSummaryWrite
    \/ SaveSummaryFails
    \/ ReturnFromWalk
    \/ EditFile

SpecSummarizer == InitSummarizer /\ [][NextSummarizer]_vars

\* the condition of the cache: no valid record, or another hash stored
CacheMiss(f) ==
    \/ records[f].kind # "record"
    \/ records[f].summary.blank
    \/ records[f].fileHash # calculateFileHash(source.content[f])

\* C18: processFile calls the summarization API for an eligible file exactly
\* when there is no valid cached record for it or the stored fileHash is not
\* the hash of its current content; a file unchanged since its last
\* successful summarization is not summarized again and its record is not
\* rewritten.
C18_SummaryCache ==
    /\ \A i \in 1..Len(walk.decision) :
          walk.decision[i].edits = source.edits =>
              (walk.decision[i].needs <=> CacheMiss(walk.decision[i].file))
    /\ \A f \in api.inflight : ~source.unchanged[f]
    /\ walk.pc \in {"call", "await", "save", "write"} => ~source.unchanged[walk.cur]

\* C19: API calls are strictly sequential: at most one call is in flight,
\* the walk stays at the file whose call is in flight until the call has
\* completed or failed, and no file gets two calls in one run.
C19_CallsSequential ==
    /\ Cardinality(api.inflight) <= 1
    /\ \A f \in api.inflight : walk.pc = "await" /\ walk.cur = f
    /\ \A i, j \in 1..Len(api.calls) :
          (i # j /\ api.calls[i].run = api.calls[j].run) =>
              api.calls[i].file # api.calls[j].file

C19_Witness ==
    /\ Len(api.calls) = 2 /\ walk.run = 2
    /\ api.inflight = {api.calls[2].file}

\* the step in which the API call of the file the walk is waiting for ends
\* without a summary
ApiCallFails ==
    /\ walk.pc = "await"
    /\ walk.cur \in api.inflight
    /\ walk.cur \notin api'.inflight
    /\ walk'.pc # "save"

\* C28: when the API call for a file fails, processFile catches the error,
\* no record is created or modified, the walk goes on with the entries that
\* are left, and the run does not end with a failure: only a directory that
\* cannot be read ends a run with status 1.
C28_ApiFailureIsContained ==
    [][ /\ ApiCallFails =>
              /\ walk'.caught # <<>>
              /\ records' = records
              /\ walk'.pc = "walk"
              /\ walk'.frames = walk.frames
              /\ walk'.exit = <<>>
        /\ (walk'.exit = <<1>> /\ walk.exit # <<1>>) => walk.pc = "list"
      ]_vars

\* in the second run the call for a file with a record of an older content
\* has failed: the record is as it was and entries are left to walk
C28_Witness ==
    /\ walk.run = 2 /\ walk.pc = "walk" /\ walk.caught = <<"APIError">>
    /\ api.inflight = {}
    /\ Len(api.calls) >= 1
    /\ LET f == api.calls[Len(api.calls)].file
       IN /\ records[f].kind = "record"
          /\ ~records[f].summary.blank
          /\ records[f].fileHash # calculateFileHash(source.content[f])
    /\ topFrame.pending # {}

\* C27: every record written by saveSummary has the fileHash of the content
\* its summary was generated from, also when the file is edited while
\* processFile is at work on it; so a file is never reported up to date
\* while its stored summary describes an older content.
C27_HashOfSummarizedContent ==
    /\ \A f \in SumFiles :
          records[f].kind = "record" =>
              records[f].fileHash = calculateFileHash(records[f].summary.of)
    /\ \A i \in 1..Len(walk.decision) :
          (walk.decision[i].edits = source.edits /\ ~walk.decision[i].needs) =>
              records[walk.decision[i].file].summary.of
                  = source.content[walk.decision[i].file]

----------------------------------------------------------------------------
(* Diff tool (diff.ts): DiffCapturer and the command-line entry point.     *)
(* A command line is the sequence of its words; the output file is the     *)
(* sequence of the parts written to it.                                    *)

\* class GitError: an AppError with code GIT_ERROR, the command and the status
GitError(message, command, status) ==
    [kind |-> "GitError", code |-> "GIT_ERROR", message |-> message,
     command |-> command, status |-> status]

S_HEAD == <<"H", "E", "A", "D">>
S_main == <<"m", "a", "i", "n">>

\* target || 'HEAD'; an absent target is <<>>, as is the empty string
TargetOrHead(target) == IF target = <<>> THEN S_HEAD ELSE target

\* lines 51-60: 'git ' + args.join(' ')
GitCommand(target) ==
    <<"git", "diff", "--staged", "--src-prefix=a/", "--dst-prefix=b/",
      "--ignore-space-change", "--ignore-blank-lines", TargetOrHead(target)>>

\* result.status ?? -1
StatusOrDefault(status) == IF status = <<>> THEN -1 ELSE status[1]

\* a variant that returns the output of git whatever its status
executeGitDiffUnchecked(target, result) == Returned(result.stdout)

\* the result of spawnSync: status <<>> is null
executeGitDiff(target, result) ==
    IF result.status = <<>> \/ result.status[1] # 0
    THEN Threw(GitError(Message("Git diff failed", result.status),
                        GitCommand(target), StatusOrDefault(result.status)))
    ELSE Returned(result.stdout)

\* lines 86-117: the script, the header naming the target, the diff, the footer
DiffContent(target, diffOutput) ==
    <<"commitPrompt", <<"explanationHeader", TargetOrHead(target)>>, diffOutput, "EOF">>

\* one console.error line of handleError
LogLine(error, context) == [error |-> error.kind, context |-> context]

Targets == {<<>>, S_main}
Statuses == {<<>>, <<0>>, <<1>>, <<128>>}
Stdouts == {<<>>, <<"+", "x">>}
OldFiles == {<<>>, <<DiffContent(<<>>, <<"-", "y">>)>>}

InitDiff ==
    /\ git \in [pc : {"start"}, target : Targets,
                result : [status : Statuses, stdout : Stdouts],
                file : OldFiles, writable : BOOLEAN,
                error : {NoError}, logged : {<<>>}, exit : {<<>>}]
    /\ source = <<>> /\ records = <<>> /\ walk = <<>> /\ api = <<>>
    /\ call = NoCall /\ ret = <<>>
    /\ fs = <<>> /\ opts = <<>> /\ pc = "idle" /\ stack = <<>>
    /\ err = NoError /\ outcome = <<>> /\ listed = <<>> /\ reads = <<>>

\* captureDiff, line 86: git runs and fails
GitFails ==
    /\ git.pc = "start"
    /\ executeGitDiff(git.target, git.result).threw
    /\ git' = [git EXCEPT !.pc = "captureDiff catch",
                          !.error = executeGitDiff(git.target, git.result).error]
    /\ UNCHANGED <<call, ret, scanVars, source, records, walk, api>>

\* line 86: git runs and its output is returned
GitSucceeds ==
    /\ git.pc = "start"
    /\ ~executeGitDiff(git.target, git.result).threw
    /\ git' = [git EXCEPT !.pc = "write"]
    /\ UNCHANGED <<call, ret, scanVars, source, records, walk, api>>

\* lines 119-126: the file is written; the program ends with status 0
WriteOutput ==
    /\ git.pc = "write" /\ git.writable
    /\ git' = [git EXCEPT !.pc = "done", !.exit = <<0>>,
                  !.file = <<DiffContent(git.target,
                                 executeGitDiff(git.target, git.result).val)>>]
    /\ UNCHANGED <<call, ret, scanVars, source, records, walk, api>>

\* lines 126-128: writeFileSync throws, with the file as it was or emptied
WriteOutputFails ==
    /\ git.pc = "write" /\ ~git.writable
    /\ \E f \in {git.file, <<<<>>>>} :
          git' = [git EXCEPT !.pc = "captureDiff catch", !.file = f,
                             !.error = FileSystemError(
                                          Message("Failed to write output file", <<>>),
                                          SystemError("writeFileSync"))]
    /\ UNCHANGED <<call, ret, scanVars, source, records, walk, api>>

HandledAndDropped(g) == [g EXCEPT !.pc = "done", !.exit = <<0>>]

\* handleError with throwAfterHandle: the error is thrown again
HandledAndThrown(g) == [g EXCEPT !.pc = "CLI catch"]

\* lines 129-134: captureDiff logs the error and throws it to its caller
CaptureDiffCatch ==
    /\ git.pc = "captureDiff catch"
    /\ git' = HandledAndThrown(
                 [git EXCEPT !.logged = Append(@, LogLine(git.error,
                                                   "DiffCapturer.captureDiff"))])
    /\ UNCHANGED <<call, ret, scanVars, source, records, walk, api>>

\* lines 147-150: the entry point logs the error and exits with status 1
CliCatch ==
    /\ git.pc = "CLI catch"
    /\ git' = [git EXCEPT !.pc = "done", !.exit = <<1>>,
                  !.logged = Append(@, LogLine(git.error, "diff.ts CLI"))]
    /\ UNCHANGED <<call, ret, scanVars, source, records, walk, api>>

NextDiff ==
    \/ GitFails
    \/ GitSucceeds
    \/ WriteOutput
    \/ WriteOutputFails
    \/ CaptureDiffCatch
    \/ CliCatch

SpecDiff == InitDiff /\ [][NextDiff]_vars

\* git did not start or ended with a status other than 0
GitFailed == git.result.status = <<>> \/ git.result.status[1] # 0

\* C20: when git exits with a non-zero status or does not start,
\* executeGitDiff raises a GitError with the full command line and the
\* status (the exit status when there is one), captureDiff passes that error
\* on to its caller, and the entry point logs it and exits with status 1.
C20_GitFailureExitsOne ==
    (GitFailed /\ git.pc # "start") =>
        /\ git.error.kind = "GitError"
        /\ git.error.command =
              <<"git", "diff", "--staged", "--src-prefix=a/", "--dst-prefix=b/",
                "--ignore-space-change", "--ignore-blank-lines",
                IF git.target = <<>> THEN S_HEAD ELSE git.target>>
        /\ git.result.status # <<>> => git.error.status = git.result.status[1]
        /\ git.pc \in {"captureDiff catch", "CLI catch", "done"}
        /\ git.pc = "done" =>
              /\ git.exit = <<1>>
              /\ \E i \in 1..Len(git.logged) :
                    git.logged[i] = [error |-> "GitError", context |-> "diff.ts CLI"]

C20_Witness ==
    /\ git.result.status = <<1>> /\ git.pc = "done"
    /\ git.exit = <<1>> /\ git.error.status = 1

\* C29: when git fails, captureDiff writes nothing, so an output file of an
\* earlier run keeps its content; the file changes only in the write that
\* follows a run of git with status 0, and a completed write leaves the
\* scaffold, the header with the heredoc opener, the output of git as it was
\* and the EOF line, in that order.
C29_NoOutputOnGitFailure ==
    [][ /\ git'.file # git.file => (git.pc = "write" /\ git.result.status = <<0>>)
        /\ (git.pc = "write" /\ git'.pc = "done") =>
              git'.file = << <<"commitPrompt",
                               <<"explanationHeader", TargetOrHead(git.target)>>,
                               git.result.stdout,
                               "EOF">> >>
      ]_vars

\* git ended with status 128 and the program is over: the output file of
\* the earlier run is still there
C29_Witness ==
    /\ git.result.status = <<128>> /\ git.pc = "done"
    /\ git.result.stdout = <<"+", "x">>
    /\ git.file = <<DiffContent(<<>>, <<"-", "y">>)>>

====
